---- MODULE Spec2Model ----
(***************************************************************************)
(* Block-synchronised metrics pipeline of the Base AAVE indexer:           *)
(*   - db-storage.js: initializeDatabase, storeMetrics (the transactional  *)
(*     upsert of one snapshot into the market table and one table per      *)
(*     token);                                                             *)
(*   - base-metrics-indexer.js: indexBaseAaveMetrics (read, transform,     *)
(*     write files, store) and startContinuousIndexing (the setInterval    *)
(*     poller and its SIGINT handler).                                     *)
(*                                                                         *)
(*   - the historical script: fetchBaseMetricsAtBlock and                  *)
(*     compareBaseBlockMetrics, and the command lines of the scripts;      *)
(*   - db-test.js: the smoke test of the database connection.              *)
(*                                                                         *)
(* The specifications:                                                     *)
(*   Spec       the poller: chain head, timer, ticks in flight, database;  *)
(*   SpecLive   the poller with runs that follow one another, under        *)
(*              fairness;                                                  *)
(*   SpecStore  callers of the exported storeMetrics with arbitrary        *)
(*              snapshots, two at a time;                                  *)
(*   SpecPair   two callers of storeMetrics, one call each;                *)
(*   SpecPool   initializeDatabase, storeMetrics and getRecentMetrics      *)
(*              alongside each other, with the pool's clients;             *)
(*   SpecIndex  callers of the exported indexBaseAaveMetrics, one call     *)
(*              after another, while the chain grows;                      *)
(*   SpecIngest a call of indexBaseAaveMetrics and the single-block fetch  *)
(*              command, while the chain grows;                            *)
(*   SpecRead   callers of getRecentMetrics over a stored database;        *)
(*   SpecTransform  the two transformers over the same reserves;           *)
(*   SpecDiff   compareBaseBlockMetrics over pairs of blocks;              *)
(*   SpecCli    the one-shot commands as processes with an exit status;    *)
(*   SpecTest   runs of the smoke test of db-test.js.                      *)
(*                                                                         *)
(* The database is PostgreSQL at READ COMMITTED: the writes of a           *)
(* transaction are private until COMMIT, are discarded by ROLLBACK or by   *)
(* the loss of the connection, and a row written by an open transaction    *)
(* is locked against the writes of every other transaction.                *)
(***************************************************************************)
EXTENDS Integers, Sequences, FiniteSets, TLC

VARIABLES
  db,                  \* committed rows: existing table name -> set of rows
  call,                \* per caller slot: the storeMetrics invocation in progress
  outstanding,         \* pool clients connected and not yet released
  latestFile,          \* data/base-aave-metrics-latest.json (NoData: absent)
  blockFiles,          \* block numbers with a data/blocks/base-block-N.json
  fetchedFiles,        \* the data/base-block-N.json files of the single-block
                       \*   fetch: block number -> snapshot in the file
  lastProduced,        \* history: the snapshot an operation produced last
  lastCommitted,       \* history: block -> snapshot of the last committed call
  twoPuts,             \* history: the snapshot committed last, whether the commit
                       \*   before it was of the same snapshot, and whether the
                       \*   last commit changed the committed rows
  head,                \* the chain: current head block number
  chain,               \* the chain: block -> formatted reserves at that block
  pollerPc,            \* startContinuousIndexing: where the start-up is
  startBlock,          \* currentBlock read at start-up (line 327)
  lastProcessedBlock,  \* the BlockCursor (line 330)
  timerArmed,          \* intervalId is active
  tick,                \* per slot: one run of the setInterval callback
  readBlocks,          \* history: blocks whose market data a tick has read
  storedBlocks,        \* history: blocks a tick has committed to the database
  lastStored,          \* history: block of the latest commit by a tick
  dupStore,            \* history: some block was committed twice by ticks
  outOfOrder,          \* history: a tick committed a block <= lastStored
  skipped,             \* history: blocks between the cursor and the head that
                       \*   some head check passed over
  index,               \* a call of indexBaseAaveMetrics made outside the poller
  recent,              \* a call of getRecentMetrics
  puts,                \* history, per caller slot: the snapshot of its latest
                       \*   storeMetrics call and whether another call was in
                       \*   progress at some moment of it
  transform,           \* formatted reserves and the snapshot a transformer
                       \*   made of them
  diff,                \* two snapshots and what compareBaseBlockMetrics
                       \*   reports of them
  cli                  \* a one-shot command: where it is and how it exited

storeVars == <<db, call, outstanding, lastCommitted, twoPuts>>
fileVars == <<latestFile, blockFiles, fetchedFiles, lastProduced>>
chainVars == <<head, chain>>
pollerVars == <<pollerPc, startBlock, lastProcessedBlock, timerArmed, tick>>
ingestVars == <<readBlocks, storedBlocks, lastStored, dupStore, outOfOrder>>
histVars == <<ingestVars, skipped>>
pureVars == <<transform, diff, cli>>
callerVars == <<index, recent, puts, pureVars>>
vars == <<storeVars, fileVars, chainVars, callerVars, pollerVars, histVars>>

----------------------------------------------------------------------------
(* Bounds of the model *)

MaxHead == 3         \* blocks are 1..MaxHead

Blocks == 1..MaxHead
Slots == {1, 2}      \* two runs of the callback, or two callers of
                     \*   storeMetrics, are enough to overlap
Timestamps == {1, 2} \* two readings of the wall clock: the same or another

NoData == [none |-> TRUE]

\* A cap is the JavaScript number Infinity or a finite number; a nullable
\* NUMERIC column holds SQL NULL or a finite number.
Infinity == [infinity |-> TRUE]
Finite(n) == [finite |-> n]
Null == [null |-> TRUE]

----------------------------------------------------------------------------
(* Table names: `aave_token_${symbol.toLowerCase().replace(/[^a-z0-9]/g,'_')}` *)
(* A symbol is a sequence of one-character strings.                         *)

UpperCase == <<"A","B","C","D","E","F","G","H","I","J","K","L","M",
               "N","O","P","Q","R","S","T","U","V","W","X","Y","Z">>
LowerCase == <<"a","b","c","d","e","f","g","h","i","j","k","l","m",
               "n","o","p","q","r","s","t","u","v","w","x","y","z">>
Digits == {"0","1","2","3","4","5","6","7","8","9"}

Range(f) == {f[x] : x \in DOMAIN f}

ToLowerCase(c) ==
  IF \E k \in DOMAIN UpperCase : UpperCase[k] = c
    THEN LowerCase[CHOOSE k \in DOMAIN UpperCase : UpperCase[k] = c]
    ELSE c

ReplaceNonAlnum(c) == IF c \in Range(LowerCase) \cup Digits THEN c ELSE "_"

TableName(symbol) ==
  <<"aave_token_">> \o [k \in 1..Len(symbol) |-> ReplaceNonAlnum(ToLowerCase(symbol[k]))]

MarketTable == <<"aave_market_metrics">>

WETH == <<"W","E","T","H">>
USDC == <<"U","S","D","C">>
GHO == <<"G","H","O">>
EURC == <<"E","U","R","C">>
SUSD == <<"s","U","S","D">>    \* an asset listed after the default list was written

\* tokenSymbols of initializeDatabase when no latest file exists (the first
\* two and the last two of the twelve of line 48 that the model's markets use)
DefaultTokens == <<WETH, USDC, GHO, EURC>>

----------------------------------------------------------------------------
(* Rows written by storeMetrics *)

\* the parameter list of the market INSERT (lines 114-122)
MarketRow(m) ==
  [block_number |-> m.blockNumber,
   timestamp |-> m.timestamp,
   network |-> m.network,
   total_market_size |-> m.totalMarketSize,
   total_borrows |-> m.totalBorrows,
   average_utilization |-> m.averageUtilization,
   token_count |-> m.tokenCount]

\* ON CONFLICT (block_number) DO UPDATE SET ... of the market INSERT (lines
\* 108-113): old is the row in conflict, new the EXCLUDED row
MarketConflictUpdate(old, new) ==
  [old EXCEPT !.timestamp = new.timestamp,
              !.total_market_size = new.total_market_size,
              !.total_borrows = new.total_borrows,
              !.average_utilization = new.average_utilization,
              !.token_count = new.token_count]

\* the parameter list of a token INSERT with the caps passed as they are
TokenRowCapsAsTheyAre(m, token) ==
  [block_number |-> m.blockNumber,
   timestamp |-> m.timestamp,
   token_name |-> token.token,
   price_usd |-> token.priceInUSD,
   total_supplied |-> token.totalSupplied,
   total_supplied_usd |-> token.totalSuppliedUSD,
   total_borrowed |-> token.totalBorrowed,
   total_borrowed_usd |-> token.totalBorrowedUSD,
   utilization_rate |-> token.utilizationRate,
   supply_apy |-> token.supplyAPY,
   borrow_apy |-> token.variableBorrowAPY,
   reserve_factor |-> token.reserveFactor,
   liquidation_threshold |-> token.liquidationThreshold,
   borrow_enabled |-> token.borrowEnabled,
   supply_cap |-> token.supplyCap,
   borrow_cap |-> token.borrowCap]

\* the parameter list of a token INSERT (lines 154-171)
TokenRow(m, token) ==
  [block_number |-> m.blockNumber,
   timestamp |-> m.timestamp,
   token_name |-> token.token,
   price_usd |-> token.priceInUSD,
   total_supplied |-> token.totalSupplied,
   total_supplied_usd |-> token.totalSuppliedUSD,
   total_borrowed |-> token.totalBorrowed,
   total_borrowed_usd |-> token.totalBorrowedUSD,
   utilization_rate |-> token.utilizationRate,
   supply_apy |-> token.supplyAPY,
   borrow_apy |-> token.variableBorrowAPY,
   reserve_factor |-> token.reserveFactor,
   liquidation_threshold |-> token.liquidationThreshold,
   borrow_enabled |-> token.borrowEnabled,
   supply_cap |-> IF token.supplyCap = Infinity THEN Null ELSE token.supplyCap,
   borrow_cap |-> IF token.borrowCap = Infinity THEN Null ELSE token.borrowCap]

\* ON CONFLICT (block_number) DO UPDATE SET ... of a token INSERT (lines 139-153)
TokenConflictUpdate(old, new) ==
  [old EXCEPT !.timestamp = new.timestamp,
              !.price_usd = new.price_usd,
              !.total_supplied = new.total_supplied,
              !.total_supplied_usd = new.total_supplied_usd,
              !.total_borrowed = new.total_borrowed,
              !.total_borrowed_usd = new.total_borrowed_usd,
              !.utilization_rate = new.utilization_rate,
              !.supply_apy = new.supply_apy,
              !.borrow_apy = new.borrow_apy,
              !.reserve_factor = new.reserve_factor,
              !.liquidation_threshold = new.liquidation_threshold,
              !.borrow_enabled = new.borrow_enabled,
              !.supply_cap = new.supply_cap,
              !.borrow_cap = new.borrow_cap]

RowsAt(rows, b) == {r \in rows : r.block_number = b}

\* INSERT INTO aave_market_metrics ... ON CONFLICT (block_number) DO UPDATE
UpsertMarket(rows, new) ==
  IF RowsAt(rows, new.block_number) = {} THEN rows \cup {new}
  ELSE (rows \ RowsAt(rows, new.block_number))
         \cup {MarketConflictUpdate(old, new) : old \in RowsAt(rows, new.block_number)}

\* INSERT INTO aave_token_... ON CONFLICT (block_number) DO UPDATE
UpsertToken(rows, new) ==
  IF RowsAt(rows, new.block_number) = {} THEN rows \cup {new}
  ELSE (rows \ RowsAt(rows, new.block_number))
         \cup {TokenConflictUpdate(old, new) : old \in RowsAt(rows, new.block_number)}

----------------------------------------------------------------------------
(* The read-transform step of indexBaseAaveMetrics *)

\* Numbers are integers; a price in the market reference currency is carried
\* in units of 10^14, so that the divisor 1e16 of line 151 is PriceDivisor.
PriceDivisor == 100
ReferencePriceInUsd == 100   \* baseCurrencyData.marketReferenceCurrencyPriceInUsd

\* a number as the string the reader returns for it, and parseFloat of such a
\* string (of "Infinity" it is the number Infinity, line 198)
NumericString(x) == [string |-> x]
parseFloat(str) == str.string

\* one formatted reserve (formatReservesAndIncentives), as the indexer reads it
Reserve(symbol, name, price, liquidity, debt, cap) ==
  [name |-> name, symbol |-> symbol,
   priceInMarketReferenceCurrency |-> price,
   totalLiquidity |-> liquidity, totalDebt |-> debt,
   totalLiquidityUSD |-> liquidity * price, totalDebtUSD |-> debt * price,
   reserves |-> 0, reserveFactor |-> 0,
   formattedReserveLiquidationThreshold |-> 80,
   borrowingEnabled |-> TRUE,
   supplyCap |-> NumericString(cap), borrowCap |-> NumericString(cap),
   supplyAPY |-> 0, variableBorrowAPY |-> 0, stableBorrowAPY |-> 0]

\* utilizationRate as a plain ratio, without the factor 100
UtilizationRateAsRatio(totalBorrowed, totalSupplied) ==
  IF totalSupplied > 0 THEN totalBorrowed \div totalSupplied ELSE 0

\* const utilizationRate = totalSupplied > 0 ? ... : 0 (lines 164-166, 552-554)
UtilizationRate(totalBorrowed, totalSupplied) ==
  IF totalSupplied > 0 THEN (totalBorrowed * 100) \div totalSupplied ELSE 0

\* formattedReserves.map(reserve => ...) (lines 148-206)
TokenMetrics(reserve) ==
  LET priceInUSD == (reserve.priceInMarketReferenceCurrency * ReferencePriceInUsd)
                      \div PriceDivisor
      totalSupplied == reserve.totalLiquidity
      totalBorrowed == reserve.totalDebt
      liquidity == totalSupplied - totalBorrowed
  IN [token |-> reserve.name,
      symbol |-> reserve.symbol,
      priceInUSD |-> priceInUSD,
      liquidity |-> liquidity,
      liquidityUSD |-> liquidity * priceInUSD,
      totalSupplied |-> totalSupplied,
      totalSuppliedUSD |-> totalSupplied * priceInUSD,
      totalBorrowed |-> totalBorrowed,
      totalBorrowedUSD |-> totalBorrowed * priceInUSD,
      utilizationRate |-> UtilizationRate(totalBorrowed, totalSupplied),
      reserves |-> reserve.reserves,
      reserveFactor |-> reserve.reserveFactor * 100,
      liquidationThreshold |-> reserve.formattedReserveLiquidationThreshold,
      borrowEnabled |-> reserve.borrowingEnabled,
      supplyCap |-> parseFloat(reserve.supplyCap),
      borrowCap |-> parseFloat(reserve.borrowCap),
      supplyAPY |-> reserve.supplyAPY * 100,
      variableBorrowAPY |-> reserve.variableBorrowAPY * 100,
      stableBorrowAPY |-> reserve.stableBorrowAPY * 100]

RECURSIVE SumOver(_, _)
SumOver(seq, field) ==
  IF seq = <<>> THEN 0 ELSE Head(seq)[field] + SumOver(Tail(seq), field)

calculateTotalMarketSize(formattedReserves) == SumOver(formattedReserves, "totalLiquidityUSD")
calculateTotalBorrows(formattedReserves) == SumOver(formattedReserves, "totalDebtUSD")
calculateTotalAvailable(formattedReserves) ==
  calculateTotalMarketSize(formattedReserves) - calculateTotalBorrows(formattedReserves)
\* the average as the ratio of the sums, without the factor 100
calculateAverageUtilizationAsRatio(formattedReserves) ==
  IF SumOver(formattedReserves, "totalLiquidityUSD") > 0
    THEN SumOver(formattedReserves, "totalDebtUSD")
           \div SumOver(formattedReserves, "totalLiquidityUSD")
    ELSE 0

calculateAverageUtilization(formattedReserves) ==
  IF SumOver(formattedReserves, "totalLiquidityUSD") > 0
    THEN (SumOver(formattedReserves, "totalDebtUSD") * 100)
           \div SumOver(formattedReserves, "totalLiquidityUSD")
    ELSE 0

BASE_CHAIN_ID == 8453

\* const metricsData = {...} (lines 247-259)
MetricsData(currentBlock, currentTimestamp, formattedReserves) ==
  [network |-> "Base",
   chainId |-> BASE_CHAIN_ID,
   blockNumber |-> currentBlock,
   timestamp |-> currentTimestamp,
   totalMarketSize |-> calculateTotalMarketSize(formattedReserves),
   totalAvailable |-> calculateTotalAvailable(formattedReserves),
   totalBorrows |-> calculateTotalBorrows(formattedReserves),
   averageUtilization |-> calculateAverageUtilization(formattedReserves),
   tokenCount |-> Len(formattedReserves),
   tokenMetrics |-> [k \in 1..Len(formattedReserves) |-> TokenMetrics(formattedReserves[k])]]

----------------------------------------------------------------------------
(* The read-transform step of fetchBaseMetricsAtBlock *)

\* the divisor 1e18 of line 539, in the units of PriceDivisor
HistoricalPriceDivisor == 10000

\* formattedReserves.map(reserve => ...) (lines 536-587)
MetricsPerTokenAtBlock(reserve) ==
  LET priceInUSD == (reserve.priceInMarketReferenceCurrency * ReferencePriceInUsd)
                      \div HistoricalPriceDivisor
      totalSupplied == reserve.totalLiquidity
      totalBorrowed == reserve.totalDebt
      liquidity == totalSupplied - totalBorrowed
  IN [token |-> reserve.name,
      symbol |-> reserve.symbol,
      priceInUSD |-> priceInUSD,
      liquidity |-> liquidity,
      liquidityUSD |-> liquidity * priceInUSD,
      totalSupplied |-> totalSupplied,
      totalSuppliedUSD |-> totalSupplied * priceInUSD,
      totalBorrowed |-> totalBorrowed,
      totalBorrowedUSD |-> totalBorrowed * priceInUSD,
      utilizationRate |-> UtilizationRate(totalBorrowed, totalSupplied),
      reserves |-> reserve.reserves,
      reserveFactor |-> reserve.reserveFactor * 100,
      liquidationThreshold |-> reserve.formattedReserveLiquidationThreshold,
      borrowEnabled |-> reserve.borrowingEnabled,
      supplyCap |-> parseFloat(reserve.supplyCap),
      borrowCap |-> parseFloat(reserve.borrowCap),
      supplyAPY |-> reserve.supplyAPY * 100,
      variableBorrowAPY |-> reserve.variableBorrowAPY * 100,
      stableBorrowAPY |-> reserve.stableBorrowAPY * 100]

\* the object fetchBaseMetricsAtBlock returns (lines 589-601); the helper
\* functions of lines 729-755 are those of lines 376-402 word for word
BaseMetricsAtBlock(blockNumber, block, formattedReserves) ==
  [network |-> "Base",
   chainId |-> BASE_CHAIN_ID,
   blockNumber |-> blockNumber,
   timestamp |-> block.timestamp,
   totalMarketSize |-> calculateTotalMarketSize(formattedReserves),
   totalAvailable |-> calculateTotalAvailable(formattedReserves),
   totalBorrows |-> calculateTotalBorrows(formattedReserves),
   averageUtilization |-> calculateAverageUtilization(formattedReserves),
   tokenCount |-> Len(formattedReserves),
   tokenMetrics |-> [k \in 1..Len(formattedReserves) |->
                       MetricsPerTokenAtBlock(formattedReserves[k])]]

----------------------------------------------------------------------------
(* storeMetrics(metricsData), one statement per step *)

IdleCall == [pc |-> "idle", arg |-> NoData, idx |-> 1, tx |-> {}, wrote |-> FALSE]

Running(i) == call[i].pc \in {"connect", "begin", "market", "token", "commit", "rollback"}

\* the table of the token the loop of line 127 is at
CurrentToken(i) == call[i].arg.tokenMetrics[call[i].idx]
CurrentTable(i) == TableName(CurrentToken(i).symbol)

\* what the transaction of slot i sees in table t: the committed rows, with
\* its own writes over them
TxRows(i, t) ==
  LET mine == {w.row : w \in {x \in call[i].tx : x.table = t}}
  IN {r \in db[t] : \A m \in mine : m.block_number # r.block_number} \cup mine

\* no other open transaction has written (and so locked) row b of table t
LockFree(i, t, b) ==
  \A j \in Slots \ {i} :
    \A w \in call[j].tx : ~(w.table = t /\ w.row.block_number = b)

\* the write set after the transaction wrote rows `after` of table t at key b
TxWrite(i, t, b, after) ==
  {w \in call[i].tx : ~(w.table = t /\ w.row.block_number = b)}
    \cup {[table |-> t, row |-> r] : r \in RowsAt(after, b)}

\* the committed rows once the write set tx is applied
Applied(tx) ==
  [t \in DOMAIN db |->
     LET mine == {w.row : w \in {x \in tx : x.table = t}}
     IN {r \in db[t] : \A m \in mine : m.block_number # r.block_number} \cup mine]

\* what is left of a call that ended with `result`: a caller that observes
\* the call keeps its result, how far it got and whether it changed committed
\* rows; otherwise the slot is free again
Ended(i, result, observed, changed) ==
  IF observed
    THEN [pc |-> result, arg |-> NoData, idx |-> call[i].idx, tx |-> {},
          wrote |-> call[i].wrote \/ changed]
    ELSE IdleCall

\* storeMetrics is called: `await pool.connect()` is pending (line 97)
StoreInvoke(i, m) ==
  /\ call[i].pc \in {"idle", "returned", "threw"}
  /\ call' = [call EXCEPT ![i] = [pc |-> "connect", arg |-> m, idx |-> 1, tx |-> {},
                                  wrote |-> FALSE]]
  /\ UNCHANGED <<db, outstanding, lastCommitted, twoPuts>>

\* pool.connect() resolves (line 97)
StoreConnect(i) ==
  /\ call[i].pc = "connect"
  /\ call' = [call EXCEPT ![i].pc = "begin"]
  /\ outstanding' = outstanding + 1
  /\ UNCHANGED <<db, lastCommitted, twoPuts>>

\* pool.connect() rejects: outside the try, nothing to roll back or release
StoreConnectFail(i, observed) ==
  /\ call[i].pc = "connect"
  /\ call' = [call EXCEPT ![i] = Ended(i, "threw", observed, FALSE)]
  /\ UNCHANGED <<db, outstanding, lastCommitted, twoPuts>>

\* BEGIN (line 101)
StoreBegin(i) ==
  /\ call[i].pc = "begin"
  /\ call' = [call EXCEPT ![i].pc = "market"]
  /\ UNCHANGED <<db, outstanding, lastCommitted, twoPuts>>

\* the market upsert (lines 104-122), written straight to the committed rows
StoreUpsertMarketAutocommit(i) ==
  /\ call[i].pc = "market"
  /\ MarketTable \in DOMAIN db
  /\ LockFree(i, MarketTable, call[i].arg.blockNumber)
  /\ db' = [db EXCEPT ![MarketTable] = UpsertMarket(db[MarketTable], MarketRow(call[i].arg))]
  /\ call' = [call EXCEPT
       ![i].pc = IF call[i].arg.tokenMetrics = <<>> THEN "commit" ELSE "token",
       ![i].wrote = @ \/ db' # db]
  /\ UNCHANGED <<outstanding, lastCommitted, twoPuts>>

\* the market upsert (lines 104-122)
StoreUpsertMarket(i) ==
  /\ call[i].pc = "market"
  /\ MarketTable \in DOMAIN db
  /\ LockFree(i, MarketTable, call[i].arg.blockNumber)
  /\ call' = [call EXCEPT
       ![i].tx = TxWrite(i, MarketTable, call[i].arg.blockNumber,
                         UpsertMarket(TxRows(i, MarketTable), MarketRow(call[i].arg))),
       ![i].pc = IF call[i].arg.tokenMetrics = <<>> THEN "commit" ELSE "token"]
  /\ UNCHANGED <<db, outstanding, lastCommitted, twoPuts>>

\* one turn of the loop of lines 127-174: the upsert of token idx
StoreUpsertToken(i) ==
  /\ call[i].pc = "token"
  /\ CurrentTable(i) \in DOMAIN db
  /\ LockFree(i, CurrentTable(i), call[i].arg.blockNumber)
  /\ call' = [call EXCEPT
       ![i].tx = TxWrite(i, CurrentTable(i), call[i].arg.blockNumber,
                         UpsertToken(TxRows(i, CurrentTable(i)),
                                     TokenRow(call[i].arg, CurrentToken(i)))),
       ![i].idx = call[i].idx + 1,
       ![i].pc = IF call[i].idx = Len(call[i].arg.tokenMetrics) THEN "commit" ELSE "token"]
  /\ UNCHANGED <<db, outstanding, lastCommitted, twoPuts>>

\* a statement rejects (the connection fails, or the relation does not exist):
\* control is in the catch, `await client.query('ROLLBACK')` pending (line 183)
StoreQueryFail(i) ==
  /\ call[i].pc \in {"begin", "market", "token", "commit"}
  /\ call' = [call EXCEPT ![i].pc = "rollback"]
  /\ UNCHANGED <<db, outstanding, lastCommitted, twoPuts>>

\* COMMIT (line 177), then the finally (line 187); the call returns
StoreCommit(i, observed) ==
  /\ call[i].pc = "commit"
  /\ db' = Applied(call[i].tx)
  /\ call' = [call EXCEPT ![i] = Ended(i, "returned", observed, db' # db)]
  /\ outstanding' = outstanding - 1
  /\ lastCommitted' = [lastCommitted EXCEPT ![call[i].arg.blockNumber] = call[i].arg]
  /\ twoPuts' = IF observed
                  THEN [last |-> call[i].arg, again |-> twoPuts.last = call[i].arg,
                        changed |-> db' # db]
                  ELSE twoPuts

\* the catch with the pending writes made durable instead of discarded
StoreRollbackKeepsWrites(i, observed) ==
  /\ call[i].pc = "rollback"
  /\ db' = Applied(call[i].tx)
  /\ call' = [call EXCEPT ![i] = Ended(i, "threw", observed, db' # db)]
  /\ outstanding' = outstanding - 1
  /\ UNCHANGED <<lastCommitted, twoPuts>>

\* the catch as it would be with the release after the ROLLBACK inside it and
\* no finally: a ROLLBACK that rejects leaves the client unreleased
StoreRollbackThenRelease(i, observed) ==
  /\ call[i].pc = "rollback"
  /\ call' = [call EXCEPT ![i] = Ended(i, "threw", observed, FALSE)]
  /\ outstanding' \in {outstanding - 1, outstanding}
  /\ UNCHANGED <<db, lastCommitted, twoPuts>>

\* ROLLBACK resolves or rejects (line 183; a ROLLBACK that rejects has lost the
\* connection, which ends the transaction too), then the finally (line 187);
\* the error is thrown (line 185)
StoreRollback(i, observed) ==
  /\ call[i].pc = "rollback"
  /\ call' = [call EXCEPT ![i] = Ended(i, "threw", observed, FALSE)]
  /\ outstanding' = outstanding - 1
  /\ UNCHANGED <<db, lastCommitted, twoPuts>>

----------------------------------------------------------------------------
(* initializeDatabase *)

RECURSIVE CreateTables(_, _)
\* CREATE TABLE IF NOT EXISTS for each name of the sequence
CreateTables(tables, names) ==
  IF names = <<>> THEN tables
  ELSE CreateTables(IF Head(names) \in DOMAIN tables THEN tables
                    ELSE tables @@ (Head(names) :> {}),
                    Tail(names))

\* tokenSymbols (lines 41-50)
TokenSymbols ==
  IF latestFile # NoData
    THEN [k \in 1..Len(latestFile.tokenMetrics) |-> latestFile.tokenMetrics[k].symbol]
    ELSE DefaultTokens

\* the tables initializeDatabase asks for, in order (lines 24, 53-57)
SchemaTables ==
  <<MarketTable>> \o [k \in 1..Len(TokenSymbols) |-> TableName(TokenSymbols[k])]

\* initializeDatabase as it would be with DROP TABLE before each CREATE TABLE
InitializeDatabaseAnew(n) ==
  /\ db' = CreateTables(<<>>, SubSeq(SchemaTables, 1, n)) @@ db
  /\ UNCHANGED <<call, outstanding, lastCommitted, twoPuts>>

\* initializeDatabase with its first n statements succeeding (each CREATE TABLE
\* commits on its own); n = Len(SchemaTables) is the run without failure
InitializeDatabase(n) ==
  /\ db' = CreateTables(db, SubSeq(SchemaTables, 1, n))
  /\ UNCHANGED <<call, outstanding, lastCommitted, twoPuts>>

----------------------------------------------------------------------------
(* getRecentMetrics: what is read back from the rows *)

ToUpperCase(c) ==
  IF \E k \in DOMAIN LowerCase : LowerCase[k] = c
    THEN UpperCase[CHOOSE k \in DOMAIN LowerCase : LowerCase[k] = c]
    ELSE c

\* the tables of `table_name LIKE 'aave_token_%'` (lines 236-240)
TokenTables(tables) == {t \in DOMAIN tables : t # MarketTable /\ Head(t) = "aave_token_"}

\* tokenTable.replace('aave_token_', '').toUpperCase() (line 246)
TokenSymbolOf(tokenTable) ==
  [k \in 1..(Len(tokenTable) - 1) |-> ToUpperCase(tokenTable[k + 1])]

\* a row of aave_market_metrics as the fields of a snapshot it was stored
\* from (the columns of lines 106, 115-121)
ReadBackMarket(row) ==
  [blockNumber |-> row.block_number,
   timestamp |-> row.timestamp,
   network |-> row.network,
   totalMarketSize |-> row.total_market_size,
   totalBorrows |-> row.total_borrows,
   averageUtilization |-> row.average_utilization,
   tokenCount |-> row.token_count]

\* a row of a token table as the fields of the token metric it was stored
\* from (the columns of lines 132-137, 157-170), with the symbol that
\* getRecentMetrics shows for the table
ReadBackToken(tokenTable, row) ==
  [token |-> row.token_name,
   symbol |-> TokenSymbolOf(tokenTable),
   priceInUSD |-> row.price_usd,
   totalSupplied |-> row.total_supplied,
   totalSuppliedUSD |-> row.total_supplied_usd,
   totalBorrowed |-> row.total_borrowed,
   totalBorrowedUSD |-> row.total_borrowed_usd,
   utilizationRate |-> row.utilization_rate,
   supplyAPY |-> row.supply_apy,
   variableBorrowAPY |-> row.borrow_apy,
   reserveFactor |-> row.reserve_factor,
   liquidationThreshold |-> row.liquidation_threshold,
   borrowEnabled |-> row.borrow_enabled,
   supplyCap |-> row.supply_cap,
   borrowCap |-> row.borrow_cap]

----------------------------------------------------------------------------
(* SpecStore: callers of the exported storeMetrics *)

ReservesA == <<Reserve(WETH, "Wrapped Ether", 20, 1000, 400, Infinity),
               Reserve(USDC, "USD Coin", 1, 500, 0, Finite(900))>>
ReservesB == <<Reserve(WETH, "WETH", 30, 1000, 500, Finite(5000))>>
ReservesC == <<Reserve(USDC, "USD Coin", 1, 600, 300, Finite(900)),
               Reserve(SUSD, "Synthetix USD", 1, 10, 0, Infinity)>>

\* the snapshots handed to storeMetrics: two of the same block that differ in
\* every column (another network, another token name, fewer tokens), and one
\* of another block with a token outside the default list
SnapA == MetricsData(1, 1, ReservesA)
SnapB == [MetricsData(1, 2, ReservesB) EXCEPT !.network = "Base Sepolia"]
SnapC == MetricsData(2, 2, ReservesC)
StoreInputs == {SnapA, SnapB, SnapC}

\* no call of storeMetrics by this caller yet
IdlePut == [arg |-> NoData, overlap |-> FALSE]

\* no call of getRecentMetrics
IdleRecent == [pc |-> "idle", limit |-> 0, rows |-> <<>>]

\* no call of indexBaseAaveMetrics outside the poller
IdleIndex ==
  [pc |-> "idle", blockNumber |-> Null, currentBlock |-> 0, reservesAt |-> 0,
   incentivesAt |-> 0, result |-> NoData, previous |-> NoData]

nonStoreVars == <<fileVars, chainVars, callerVars, pollerVars, histVars>>

InitStore ==
  /\ db = <<>>
  /\ call = [i \in Slots |-> IdleCall]
  /\ outstanding = 0
  /\ latestFile \in {NoData, SnapC}
  /\ blockFiles = {}
  /\ fetchedFiles = <<>>
  /\ lastProduced = NoData
  /\ lastCommitted = [b \in Blocks |-> NoData]
  /\ twoPuts = [last |-> NoData, again |-> FALSE, changed |-> FALSE]
  /\ head = 1
  /\ chain = <<>>
  /\ pollerPc = "off"
  /\ startBlock = 0
  /\ lastProcessedBlock = 0
  /\ timerArmed = FALSE
  /\ tick = <<>>
  /\ readBlocks = {}
  /\ storedBlocks = {}
  /\ lastStored = 0
  /\ dupStore = FALSE
  /\ outOfOrder = FALSE
  /\ skipped = {}
  /\ index = IdleIndex
  /\ recent = IdleRecent
  /\ puts = [i \in Slots |-> IdlePut]
  /\ transform = NoData
  /\ diff = NoData
  /\ cli = NoData

ApiInitializeDatabase(n) == InitializeDatabase(n) /\ UNCHANGED nonStoreVars
ApiInvoke(i, m) == StoreInvoke(i, m) /\ UNCHANGED nonStoreVars
ApiConnect(i) == StoreConnect(i) /\ UNCHANGED nonStoreVars
ApiConnectFail(i) == StoreConnectFail(i, TRUE) /\ UNCHANGED nonStoreVars
ApiBegin(i) == StoreBegin(i) /\ UNCHANGED nonStoreVars
ApiUpsertMarket(i) == StoreUpsertMarket(i) /\ UNCHANGED nonStoreVars
ApiUpsertToken(i) == StoreUpsertToken(i) /\ UNCHANGED nonStoreVars
ApiQueryFail(i) == StoreQueryFail(i) /\ UNCHANGED nonStoreVars
ApiCommit(i) == StoreCommit(i, TRUE) /\ UNCHANGED nonStoreVars
ApiRollback(i) == StoreRollback(i, TRUE) /\ UNCHANGED nonStoreVars

NextStore ==
  \/ \E n \in 0..Len(SchemaTables) : ApiInitializeDatabase(n)
  \/ \E i \in Slots, m \in StoreInputs : ApiInvoke(i, m)
  \/ \E i \in Slots : ApiConnect(i)
  \/ \E i \in Slots : ApiConnectFail(i)
  \/ \E i \in Slots : ApiBegin(i)
  \/ \E i \in Slots : ApiUpsertMarket(i)
  \/ \E i \in Slots : ApiUpsertToken(i)
  \/ \E i \in Slots : ApiQueryFail(i)
  \/ \E i \in Slots : ApiCommit(i)
  \/ \E i \in Slots : ApiRollback(i)

SpecStore == InitStore /\ [][NextStore]_vars

----------------------------------------------------------------------------
(* Spec: startContinuousIndexing *)

\* the market at block b: WETH, and sUSD once it is listed
Market(b, listed) ==
  <<Reserve(WETH, "Wrapped Ether", 20, 1000, 100 * b, Infinity)>>
    \o (IF listed THEN <<Reserve(SUSD, "Synthetix USD", 1, 10, 0, Finite(900))>> ELSE <<>>)

Listed(b) == Len(chain[b]) > 1

IdleTick == [pc |-> "idle", blockNumber |-> 0, outcome |-> "none"]

\* a run of the callback that has ended, and how
EndedTick(outcome) == [pc |-> "idle", blockNumber |-> 0, outcome |-> outcome]

Init ==
  /\ db = <<>>
  /\ call = [i \in Slots |-> IdleCall]
  /\ outstanding = 0
  /\ latestFile = NoData
  /\ blockFiles = {}
  /\ fetchedFiles = <<>>
  /\ lastProduced = NoData
  /\ lastCommitted = [b \in Blocks |-> NoData]
  /\ twoPuts = [last |-> NoData, again |-> FALSE, changed |-> FALSE]
  /\ head = 1
  /\ chain = <<Market(1, FALSE)>>
  /\ pollerPc = "init"
  /\ startBlock = 0
  /\ lastProcessedBlock = 0
  /\ timerArmed = FALSE
  /\ tick = [i \in Slots |-> IdleTick]
  /\ readBlocks = {}
  /\ storedBlocks = {}
  /\ lastStored = 0
  /\ dupStore = FALSE
  /\ outOfOrder = FALSE
  /\ skipped = {}
  /\ index = IdleIndex
  /\ recent = IdleRecent
  /\ puts = [i \in Slots |-> IdlePut]
  /\ transform = NoData
  /\ diff = NoData
  /\ cli = NoData

\* the chain produces a block while the poller is up, or while the functions
\* are called without it; sUSD may be listed in the block
NewBlock(list) ==
  /\ pollerPc \in {"head", "running", "off"}
  /\ head < MaxHead
  /\ head' = head + 1
  /\ chain' = Append(chain, Market(head + 1, Listed(head) \/ list))
  /\ UNCHANGED <<storeVars, fileVars, pollerVars, histVars, callerVars>>

\* `await initializeDatabase()` (line 320); a failure is thrown to the caller
\* of startContinuousIndexing, and no timer is set
StartInitializeDatabase(n) ==
  /\ pollerPc = "init"
  /\ InitializeDatabase(n)
  /\ pollerPc' = IF n = Len(SchemaTables) THEN "head" ELSE "failed"
  /\ UNCHANGED <<fileVars, chainVars, callerVars, startBlock, lastProcessedBlock, timerArmed, tick,
                 histVars>>

\* `currentBlock = await provider.getBlockNumber()`, the cursor, setInterval
\* and the SIGINT handler (lines 327-366)
StartPolling ==
  /\ pollerPc = "head"
  /\ pollerPc' = "running"
  /\ startBlock' = head
  /\ lastProcessedBlock' = head
  /\ timerArmed' = TRUE
  /\ UNCHANGED <<storeVars, fileVars, chainVars, callerVars, tick, histVars>>

\* provider.getBlockNumber() rejects at start-up (line 327)
StartFail ==
  /\ pollerPc = "head"
  /\ pollerPc' = "failed"
  /\ UNCHANGED <<storeVars, fileVars, chainVars, callerVars, startBlock, lastProcessedBlock,
                 timerArmed, tick, histVars>>

\* the interval timer fires and a run of the callback starts in the lowest
\* free slot: `await provider.getBlockNumber()` is pending (lines 336-338).
\* Nothing makes a firing wait for the run before it.
TimerFire(i) ==
  /\ pollerPc = "running"
  /\ timerArmed
  /\ tick[i].pc = "idle"
  /\ \A j \in Slots : j < i => tick[j].pc # "idle"
  /\ tick' = [tick EXCEPT ![i] = [pc |-> "head", blockNumber |-> 0, outcome |-> "none"]]
  /\ UNCHANGED <<storeVars, fileVars, chainVars, callerVars, pollerPc, startBlock,
                 lastProcessedBlock, timerArmed, histVars>>

\* an await of the callback rejects outside storeMetrics (the head query of
\* line 338, or a read of indexBaseAaveMetrics, lines 105-134): the catch of
\* line 356 logs
TickFail(i) ==
  /\ tick[i].pc \in {"head", "read"}
  /\ tick' = [tick EXCEPT ![i] = EndedTick("error")]
  /\ UNCHANGED <<storeVars, fileVars, chainVars, callerVars, pollerPc, startBlock,
                 lastProcessedBlock, timerArmed, histVars>>

\* the head check with the cursor advanced as soon as a new head is seen
TickHeadAdvancesCursor(i) ==
  /\ tick[i].pc = "head"
  /\ IF head <= lastProcessedBlock
       THEN /\ tick' = [tick EXCEPT ![i] = EndedTick("noop")]
            /\ UNCHANGED lastProcessedBlock
       ELSE /\ tick' = [tick EXCEPT ![i].pc = "delay", ![i].blockNumber = head]
            /\ lastProcessedBlock' = head
  /\ skipped' = skipped \cup ((lastProcessedBlock + 1)..(head - 1))
  /\ UNCHANGED <<storeVars, fileVars, chainVars, callerVars, pollerPc, startBlock,
                 timerArmed, ingestVars>>

\* the head check that lets a head equal to the cursor through
TickHeadNotStrict(i) ==
  /\ tick[i].pc = "head"
  /\ IF head < lastProcessedBlock
       THEN tick' = [tick EXCEPT ![i] = EndedTick("noop")]
       ELSE tick' = [tick EXCEPT ![i].pc = "delay", ![i].blockNumber = head]
  /\ skipped' = skipped \cup ((lastProcessedBlock + 1)..(head - 1))
  /\ UNCHANGED <<storeVars, fileVars, chainVars, callerVars, pollerPc, startBlock,
                 lastProcessedBlock, timerArmed, ingestVars>>

\* getBlockNumber resolves: `if (blockNumber <= lastProcessedBlock) return;`,
\* otherwise the settling delay is pending (lines 338-348)
TickHead(i) ==
  /\ tick[i].pc = "head"
  /\ IF head <= lastProcessedBlock
       THEN tick' = [tick EXCEPT ![i] = EndedTick("noop")]
       ELSE tick' = [tick EXCEPT ![i].pc = "delay", ![i].blockNumber = head]
  /\ skipped' = skipped \cup ((lastProcessedBlock + 1)..(head - 1))
  /\ UNCHANGED <<storeVars, fileVars, chainVars, callerVars, pollerPc, startBlock,
                 lastProcessedBlock, timerArmed, ingestVars>>

\* the settling delay ends: indexBaseAaveMetrics(blockNumber, true) is called
\* and its reads are pending (lines 351, 105-134)
TickDelayDone(i) ==
  /\ tick[i].pc = "delay"
  /\ tick' = [tick EXCEPT ![i].pc = "read"]
  /\ UNCHANGED <<storeVars, fileVars, chainVars, callerVars, pollerPc, startBlock,
                 lastProcessedBlock, timerArmed, histVars>>

\* the wall clock of the poller, in block times: dayjs().unix() read while the
\* chain is at `head` (line 136)
Now == head

\* the reads resolve: the snapshot is built with the wall-clock time ts, the
\* files are written and storeMetrics is called (lines 136-300)
TickRead(i, ts) ==
  /\ tick[i].pc = "read"
  /\ LET metricsData == MetricsData(tick[i].blockNumber, ts, chain[tick[i].blockNumber])
     IN /\ latestFile' = metricsData
        /\ lastProduced' = metricsData
        /\ StoreInvoke(i, metricsData)
  /\ blockFiles' = blockFiles \cup {tick[i].blockNumber}
  /\ UNCHANGED fetchedFiles
  /\ tick' = [tick EXCEPT ![i].pc = "store"]
  /\ readBlocks' = readBlocks \cup {tick[i].blockNumber}
  /\ UNCHANGED <<chainVars, callerVars, pollerPc, startBlock, lastProcessedBlock, timerArmed,
                 storedBlocks, lastStored, dupStore, outOfOrder, skipped>>

pollerFrame == <<fileVars, chainVars, callerVars, pollerVars, histVars>>

TickConnect(i) == tick[i].pc = "store" /\ StoreConnect(i) /\ UNCHANGED pollerFrame
TickBegin(i) == tick[i].pc = "store" /\ StoreBegin(i) /\ UNCHANGED pollerFrame
TickUpsertMarket(i) == tick[i].pc = "store" /\ StoreUpsertMarket(i) /\ UNCHANGED pollerFrame
TickUpsertToken(i) == tick[i].pc = "store" /\ StoreUpsertToken(i) /\ UNCHANGED pollerFrame
TickQueryFail(i) == tick[i].pc = "store" /\ StoreQueryFail(i) /\ UNCHANGED pollerFrame

\* the catch of line 356, clearing the interval on a failed store
TickStoreThrowsStopsTimer(i) ==
  /\ tick[i].pc = "store"
  /\ StoreConnectFail(i, FALSE) \/ StoreRollback(i, FALSE)
  /\ tick' = [tick EXCEPT ![i] = EndedTick("error")]
  /\ timerArmed' = FALSE
  /\ UNCHANGED <<fileVars, chainVars, callerVars, pollerPc, startBlock, lastProcessedBlock,
                 histVars>>

\* storeMetrics throws (pool.connect rejected, or after the ROLLBACK): the
\* error passes through indexBaseAaveMetrics to the catch of line 356
TickStoreThrows(i) ==
  /\ tick[i].pc = "store"
  /\ StoreConnectFail(i, FALSE) \/ StoreRollback(i, FALSE)
  /\ tick' = [tick EXCEPT ![i] = EndedTick("error")]
  /\ UNCHANGED <<fileVars, chainVars, callerVars, pollerPc, startBlock, lastProcessedBlock,
                 timerArmed, histVars>>

\* COMMIT resolves, storeMetrics and indexBaseAaveMetrics return, and
\* `lastProcessedBlock = blockNumber` (lines 177, 300-304, 354)
TickCommit(i) ==
  /\ tick[i].pc = "store"
  /\ StoreCommit(i, FALSE)
  /\ lastProcessedBlock' = tick[i].blockNumber
  /\ tick' = [tick EXCEPT ![i] = EndedTick("ok")]
  /\ storedBlocks' = storedBlocks \cup {tick[i].blockNumber}
  /\ lastStored' = tick[i].blockNumber
  /\ dupStore' = (dupStore \/ tick[i].blockNumber \in storedBlocks)
  /\ outOfOrder' = (outOfOrder \/ tick[i].blockNumber <= lastStored)
  /\ UNCHANGED <<fileVars, chainVars, callerVars, pollerPc, startBlock, timerArmed, readBlocks,
                 skipped>>

\* a run of the callback cut short by the end of the process: its outcome is
\* the await it was at (inside storeMetrics, the statement awaited)
KilledTick(i) ==
  [pc |-> "killed", blockNumber |-> tick[i].blockNumber,
   outcome |-> IF tick[i].pc = "store" THEN call[i].pc ELSE tick[i].pc]

\* SIGINT with the server committing what the open transactions had written
SigintKeepsWrites ==
  /\ pollerPc = "running"
  /\ pollerPc' = "stopped"
  /\ timerArmed' = FALSE
  /\ tick' = [i \in Slots |-> IF tick[i].pc = "idle" THEN tick[i] ELSE KilledTick(i)]
  /\ call' = [i \in Slots |-> IdleCall]
  /\ outstanding' = 0
  /\ db' = Applied(UNION {call[i].tx : i \in Slots})
  /\ UNCHANGED <<lastCommitted, twoPuts, fileVars, chainVars, callerVars, startBlock,
                 lastProcessedBlock, histVars>>

\* SIGINT: clearInterval and process.exit(0) (lines 362-366). The process
\* ends with whatever runs of the callback are in flight; their connections
\* close, which ends their transactions without a commit.
Sigint ==
  /\ pollerPc = "running"
  /\ pollerPc' = "stopped"
  /\ timerArmed' = FALSE
  /\ tick' = [i \in Slots |-> IF tick[i].pc = "idle" THEN tick[i] ELSE KilledTick(i)]
  /\ call' = [i \in Slots |-> IdleCall]
  /\ outstanding' = 0
  /\ UNCHANGED <<db, lastCommitted, twoPuts, fileVars, chainVars, callerVars, startBlock,
                 lastProcessedBlock, histVars>>

Next ==
  \/ \E list \in BOOLEAN : NewBlock(list)
  \/ \E n \in 0..Len(SchemaTables) : StartInitializeDatabase(n)
  \/ StartPolling
  \/ StartFail
  \/ \E i \in Slots : TimerFire(i)
  \/ \E i \in Slots : TickFail(i)
  \/ \E i \in Slots : TickHead(i)
  \/ \E i \in Slots : TickDelayDone(i)
  \/ \E i \in Slots : TickRead(i, Now)
  \/ \E i \in Slots : TickConnect(i)
  \/ \E i \in Slots : TickBegin(i)
  \/ \E i \in Slots : TickUpsertMarket(i)
  \/ \E i \in Slots : TickUpsertToken(i)
  \/ \E i \in Slots : TickQueryFail(i)
  \/ \E i \in Slots : TickStoreThrows(i)
  \/ \E i \in Slots : TickCommit(i)
  \/ Sigint

Spec == Init /\ [][Next]_vars

----------------------------------------------------------------------------
(* SpecIndex: callers of the exported indexBaseAaveMetrics(blockNumber, false) *)

\* the blockNumber argument: null, or a number
BlockArgs == {Null} \cup {[number |-> n] : n \in 0..MaxHead}

\* JavaScript truthiness of the argument, as `blockNumber || ...` (line 105)
\* and `blockNumber ? ... : undefined` (line 125) test it
Truthy(blockNumber) == blockNumber # Null /\ blockNumber.number # 0

\* the block a data read refers to: `{ blockTag: blockNumber }`, or with an
\* undefined blockTag the head at the time of the read (line 125)
BlockTag(blockNumber) == IF Truthy(blockNumber) THEN blockNumber.number ELSE head

InitIndex ==
  /\ db = <<>>
  /\ call = [i \in Slots |-> IdleCall]
  /\ outstanding = 0
  /\ latestFile = NoData
  /\ blockFiles = {}
  /\ fetchedFiles = <<>>
  /\ lastProduced = NoData
  /\ lastCommitted = [b \in Blocks |-> NoData]
  /\ twoPuts = [last |-> NoData, again |-> FALSE, changed |-> FALSE]
  /\ head = 1
  /\ chain = <<Market(1, FALSE)>>
  /\ pollerPc = "off"
  /\ startBlock = 0
  /\ lastProcessedBlock = 0
  /\ timerArmed = FALSE
  /\ tick = <<>>
  /\ readBlocks = {}
  /\ storedBlocks = {}
  /\ lastStored = 0
  /\ dupStore = FALSE
  /\ outOfOrder = FALSE
  /\ skipped = {}
  /\ index = IdleIndex
  /\ recent = IdleRecent
  /\ puts = [i \in Slots |-> IdlePut]
  /\ transform = NoData
  /\ diff = NoData
  /\ cli = NoData

indexFrame == <<storeVars, chainVars, pollerVars, histVars, recent, puts, pureVars>>

\* indexBaseAaveMetrics(blockNumber, false) is called: with a truthy argument
\* currentBlock is the argument and the reads are next; otherwise
\* `await provider.getBlockNumber()` is pending (line 105)
IndexInvoke(blockNumber) ==
  /\ index.pc \in {"idle", "done", "threw"}
  /\ index' = [pc |-> IF Truthy(blockNumber) THEN "reserves" ELSE "head",
               blockNumber |-> blockNumber,
               currentBlock |-> IF Truthy(blockNumber) THEN blockNumber.number ELSE 0,
               reservesAt |-> 0, incentivesAt |-> 0, result |-> NoData,
               previous |-> IF index.result # NoData THEN index.result
                            ELSE index.previous]
  /\ UNCHANGED <<indexFrame, fileVars>>

\* getBlockNumber resolves: currentBlock is the head of this moment; then
\* fetchReservesList and the reserve read are awaited (lines 105-127)
IndexHead ==
  /\ index.pc = "head"
  /\ index' = [index EXCEPT !.pc = "reserves", !.currentBlock = head]
  /\ UNCHANGED <<indexFrame, fileVars>>

\* the reserve read as it would be if a tag past the head were served with
\* the data of the head
IndexReservesAtHeadIfMissing ==
  /\ index.pc = "reserves"
  /\ index' = [index EXCEPT !.pc = "incentives",
                            !.reservesAt = IF BlockTag(index.blockNumber) <= head
                                             THEN BlockTag(index.blockNumber)
                                             ELSE head]
  /\ UNCHANGED <<indexFrame, fileVars>>

\* getReservesHumanized(..., blockTag) resolves (lines 127-129): the data of
\* the block the tag names, which must exist
IndexReserves ==
  /\ index.pc = "reserves"
  /\ BlockTag(index.blockNumber) <= head
  /\ index' = [index EXCEPT !.pc = "incentives",
                            !.reservesAt = BlockTag(index.blockNumber)]
  /\ UNCHANGED <<indexFrame, fileVars>>

\* getReservesIncentivesDataHumanized(..., blockTag) resolves (lines 132-134);
\* the clock is read, the snapshot built and the files written, and the call
\* returns metricsData (lines 136-304, storeInDb false)
IndexIncentives(ts) ==
  /\ index.pc = "incentives"
  /\ LET metricsData == MetricsData(index.currentBlock, ts, chain[index.reservesAt])
     IN /\ index' = [index EXCEPT
             !.pc = "done",
             !.incentivesAt = BlockTag(index.blockNumber),
             !.result = [metricsData |-> metricsData,
                         reservesAt |-> index.reservesAt,
                         incentivesAt |-> BlockTag(index.blockNumber)]]
        /\ latestFile' = metricsData
        /\ lastProduced' = metricsData
  /\ UNCHANGED fetchedFiles
  /\ blockFiles' = IF Truthy(index.blockNumber)
                     THEN blockFiles \cup {index.blockNumber.number}
                     ELSE blockFiles
  /\ UNCHANGED indexFrame

\* an await of the call rejects (the node is unreachable, or the block of the
\* tag does not exist): the catch of line 306 rethrows
IndexFail ==
  /\ index.pc \in {"head", "reserves", "incentives"}
  /\ index' = [index EXCEPT !.pc = "threw"]
  /\ UNCHANGED <<indexFrame, fileVars>>

NextIndex ==
  \/ \E list \in BOOLEAN : NewBlock(list)
  \/ \E blockNumber \in BlockArgs : IndexInvoke(blockNumber)
  \/ IndexHead
  \/ IndexReserves
  \/ \E ts \in Timestamps : IndexIncentives(ts)
  \/ IndexFail

SpecIndex == InitIndex /\ [][NextIndex]_vars

----------------------------------------------------------------------------
(* SpecRead: callers of getRecentMetrics(limit), and `node db-storage.js recent` *)

RECURSIVE OrderByBlockDesc(_)
\* ORDER BY block_number DESC (line 224)
OrderByBlockDesc(rows) ==
  IF rows = {} THEN <<>>
  ELSE LET top == CHOOSE r \in rows : \A q \in rows : q.block_number <= r.block_number
       IN <<top>> \o OrderByBlockDesc(rows \ {top})

\* LIMIT with one row too many
LimitPlusOne(seq, n) == SubSeq(seq, 1, IF n + 1 < Len(seq) THEN n + 1 ELSE Len(seq))

\* LIMIT $1 (line 225)
Limit(seq, n) == SubSeq(seq, 1, IF n < Len(seq) THEN n ELSE Len(seq))

DefaultLimit == 5

\* the second word of the command line: absent, or a number
CliArgs == {Null} \cup {[number |-> n] : n \in 0..(MaxHead + 1)}

\* `parseInt(args[1]) || 5` (line 302)
CliLimit(arg) == IF arg = Null \/ arg.number = 0 THEN DefaultLimit ELSE arg.number

\* the limits a caller of the function passes
Limits == 0..(MaxHead + 1)

RECURSIVE StoreTokens(_, _, _)
\* the token upserts of storeMetrics(m) from token k on, applied to tables
StoreTokens(tables, m, k) ==
  IF k > Len(m.tokenMetrics) THEN tables
  ELSE StoreTokens(
         [tables EXCEPT ![TableName(m.tokenMetrics[k].symbol)] =
            UpsertToken(@, TokenRow(m, m.tokenMetrics[k]))],
         m, k + 1)

\* the tables after storeMetrics(m) ran alone and committed
Stored(tables, m) ==
  StoreTokens([tables EXCEPT ![MarketTable] = UpsertMarket(@, MarketRow(m))], m, 1)

RECURSIVE StoredBlocksOf(_, _)
\* the tables after the snapshots of the blocks of S were stored
StoredBlocksOf(tables, S) ==
  IF S = {} THEN tables
  ELSE LET b == CHOOSE x \in S : TRUE
       IN StoredBlocksOf(Stored(tables, MetricsData(b, b, Market(b, FALSE))), S \ {b})

\* the database before initializeDatabase, or after it and the storing of
\* any set of blocks
InitRead ==
  /\ db \in {<<>>} \cup
            {StoredBlocksOf(CreateTables(<<>>, <<MarketTable>> \o
                              [k \in 1..Len(DefaultTokens) |-> TableName(DefaultTokens[k])]),
                            S) : S \in SUBSET Blocks}
  /\ call = [i \in Slots |-> IdleCall]
  /\ outstanding = 0
  /\ latestFile = NoData
  /\ blockFiles = {}
  /\ fetchedFiles = <<>>
  /\ lastProduced = NoData
  /\ lastCommitted = [b \in Blocks |-> NoData]
  /\ twoPuts = [last |-> NoData, again |-> FALSE, changed |-> FALSE]
  /\ head = 1
  /\ chain = <<>>
  /\ pollerPc = "off"
  /\ startBlock = 0
  /\ lastProcessedBlock = 0
  /\ timerArmed = FALSE
  /\ tick = <<>>
  /\ readBlocks = {}
  /\ storedBlocks = {}
  /\ lastStored = 0
  /\ dupStore = FALSE
  /\ outOfOrder = FALSE
  /\ skipped = {}
  /\ index = IdleIndex
  /\ recent = IdleRecent
  /\ puts = [i \in Slots |-> IdlePut]
  /\ transform = NoData
  /\ diff = NoData
  /\ cli = NoData

recentFrame ==
  <<db, call, lastCommitted, twoPuts, fileVars, chainVars, pollerVars, histVars, index,
    puts, pureVars>>

\* getRecentMetrics(limit) is called: `await pool.connect()` is pending (line 219)
RecentInvoke(limit) ==
  /\ recent.pc \in {"idle", "returned", "threw"}
  /\ recent' = [pc |-> "connect", limit |-> limit, rows |-> <<>>]
  /\ UNCHANGED <<recentFrame, outstanding>>

\* pool.connect() resolves; the market query is pending (lines 219-226)
RecentConnect ==
  /\ recent.pc = "connect"
  /\ recent' = [recent EXCEPT !.pc = "market"]
  /\ outstanding' = outstanding + 1
  /\ UNCHANGED recentFrame

\* the market query resolves (lines 222-229). With no row the function
\* returns (lines 232, 266, 272); otherwise the token queries follow
RecentMarketQuery ==
  /\ recent.pc = "market"
  /\ MarketTable \in DOMAIN db
  /\ LET rows == Limit(OrderByBlockDesc(db[MarketTable]), recent.limit)
     IN /\ recent' = [recent EXCEPT !.rows = rows,
                                    !.pc = IF rows = <<>> THEN "returned" ELSE "tokens"]
        /\ outstanding' = IF rows = <<>> THEN outstanding - 1 ELSE outstanding
  /\ UNCHANGED recentFrame

\* the table list and the token rows of the latest block are read and
\* printed; the function returns metricsQuery.rows (lines 233-266, 272)
RecentTokenQueries ==
  /\ recent.pc = "tokens"
  /\ recent' = [recent EXCEPT !.pc = "returned"]
  /\ outstanding' = outstanding - 1
  /\ UNCHANGED recentFrame

\* pool.connect() rejects, or a query does (the connection fails, or
\* aave_market_metrics does not exist): the catch rethrows and the finally
\* releases the client (lines 268-273)
RecentFail ==
  /\ recent.pc \in {"connect", "market", "tokens"}
  /\ recent' = [recent EXCEPT !.pc = "threw", !.rows = <<>>]
  /\ outstanding' = IF recent.pc = "connect" THEN outstanding ELSE outstanding - 1
  /\ UNCHANGED recentFrame

\* `node db-storage.js recent [limit]` (lines 301-304)
CliRecent(arg) == RecentInvoke(CliLimit(arg))

NextRead ==
  \/ \E limit \in Limits : RecentInvoke(limit)
  \/ \E arg \in CliArgs : CliRecent(arg)
  \/ RecentConnect
  \/ RecentMarketQuery
  \/ RecentTokenQueries
  \/ RecentFail

SpecRead == InitRead /\ [][NextRead]_vars

----------------------------------------------------------------------------
(* SpecPair: two callers of the exported storeMetrics, one call each, over  *)
(* the default schema, empty or holding an earlier snapshot of block 1      *)

ReservesD ==
  <<[Reserve(WETH, "Wrapped Ether", 25, 1000, 450, Infinity)
       EXCEPT !.borrowCap = NumericString(Finite(800))]>>

\* a snapshot of block 2 whose token has a table in the default schema, with
\* no supply cap and a borrow cap
SnapD == MetricsData(2, 2, ReservesD)
PairInputs == {SnapA, SnapB, SnapC, SnapD}

\* the tables initializeDatabase creates when there is no latest file
DefaultSchema ==
  CreateTables(<<>>, <<MarketTable>> \o
                 [k \in 1..Len(DefaultTokens) |-> TableName(DefaultTokens[k])])

InitPair ==
  /\ \E earlier \in {NoData, SnapA} :
       /\ db = IF earlier = NoData THEN DefaultSchema ELSE Stored(DefaultSchema, earlier)
       /\ lastCommitted = [b \in Blocks |->
            IF earlier # NoData /\ b = earlier.blockNumber THEN earlier ELSE NoData]
       /\ twoPuts = [last |-> earlier, again |-> FALSE, changed |-> earlier # NoData]
  /\ call = [i \in Slots |-> IdleCall]
  /\ outstanding = 0
  /\ latestFile = NoData
  /\ blockFiles = {}
  /\ fetchedFiles = <<>>
  /\ lastProduced = NoData
  /\ head = 1
  /\ chain = <<>>
  /\ pollerPc = "off"
  /\ startBlock = 0
  /\ lastProcessedBlock = 0
  /\ timerArmed = FALSE
  /\ tick = <<>>
  /\ readBlocks = {}
  /\ storedBlocks = {}
  /\ lastStored = 0
  /\ dupStore = FALSE
  /\ outOfOrder = FALSE
  /\ skipped = {}
  /\ index = IdleIndex
  /\ recent = IdleRecent
  /\ puts = [i \in Slots |-> IdlePut]
  /\ transform = NoData
  /\ diff = NoData
  /\ cli = NoData

\* caller i makes its call of storeMetrics(m) (line 96); a call that starts
\* while the other caller's call is in progress overlaps it
PairInvoke(i, m) ==
  /\ puts[i].arg = NoData
  /\ StoreInvoke(i, m)
  /\ puts' = [j \in Slots |->
        IF j = i THEN [arg |-> m, overlap |-> \E k \in Slots \ {i} : Running(k)]
        ELSE IF Running(j) THEN [puts[j] EXCEPT !.overlap = TRUE]
        ELSE puts[j]]
  /\ UNCHANGED <<fileVars, chainVars, index, recent, pureVars, pollerVars, histVars>>

NextPair ==
  \/ \E i \in Slots, m \in PairInputs : PairInvoke(i, m)
  \/ \E i \in Slots : ApiConnect(i)
  \/ \E i \in Slots : ApiConnectFail(i)
  \/ \E i \in Slots : ApiBegin(i)
  \/ \E i \in Slots : ApiUpsertMarket(i)
  \/ \E i \in Slots : ApiUpsertToken(i)
  \/ \E i \in Slots : ApiQueryFail(i)
  \/ \E i \in Slots : ApiCommit(i)
  \/ \E i \in Slots : ApiRollback(i)

SpecPair == InitPair /\ [][NextPair]_vars

----------------------------------------------------------------------------
(* Claims about storeMetrics, checked under SpecStore *)

Tokens(m) == {m.tokenMetrics[k] : k \in 1..Len(m.tokenMetrics)}

\* the committed rows hold a market row and a row in every token table of m,
\* for the block of m
HasAllRows(m) ==
  /\ MarketTable \in DOMAIN db
  /\ RowsAt(db[MarketTable], m.blockNumber) # {}
  /\ \A token \in Tokens(m) :
       /\ TableName(token.symbol) \in DOMAIN db
       /\ RowsAt(db[TableName(token.symbol)], m.blockNumber) # {}

\* the committed rows hold, for the block of m, exactly one market row and
\* exactly one row per token of m, each with the column values of m
HasExactRows(m) ==
  /\ MarketTable \in DOMAIN db
  /\ RowsAt(db[MarketTable], m.blockNumber) = {MarketRow(m)}
  /\ \A token \in Tokens(m) :
       /\ TableName(token.symbol) \in DOMAIN db
       /\ RowsAt(db[TableName(token.symbol)], m.blockNumber) = {TokenRow(m, token)}

\* C1: storeMetrics is atomic. A call that has not committed (it is at any of
\* its statements, in its catch, or has thrown) has changed no committed row;
\* once a call has committed, the market row and a row in the table of every
\* token of its snapshot are there; and a reader that sees a market row for a
\* block sees the rows of a committed call, all token rows included.
C1_Atomic ==
  /\ \A i \in Slots : call[i].pc # "returned" => ~call[i].wrote
  /\ \A b \in Blocks : lastCommitted[b] # NoData => HasAllRows(lastCommitted[b])
  /\ \A b \in Blocks :
       (MarketTable \in DOMAIN db /\ RowsAt(db[MarketTable], b) # {})
         => lastCommitted[b] # NoData

\* one call committed a snapshot of two tokens while another failed after its
\* market upsert and at least one token upsert
C1_Witness ==
  \E i, j \in Slots :
    /\ call[i].pc = "returned" /\ call[i].wrote /\ call[i].idx > 2
    /\ call[j].pc = "threw" /\ call[j].idx > 1

\* C2: a storeMetrics call that fails ends by throwing to its caller with the
\* committed rows untouched by it: none of its statements, nor its catch,
\* changed a committed row, and it leaves no pending write behind.
C2_FailureLeavesStore ==
  /\ \A i \in Slots : call[i].pc \in {"rollback", "threw"} => ~call[i].wrote
  /\ \A i \in Slots : call[i].pc = "threw" => call[i].tx = {}

\* with rows committed by an earlier call, a call failed after it had issued
\* its market upsert and a token upsert
C2_Witness ==
  \E i \in Slots :
    /\ call[i].pc = "threw" /\ call[i].idx > 1
    /\ twoPuts.last # NoData

\* C3 (as claimed): after storeMetrics(s) committed twice in a row, the second
\* commit changed nothing and the rows of s.blockNumber are exactly one per
\* table, with the column values of s.
C3_Idempotent ==
  twoPuts.again => ~twoPuts.changed /\ HasExactRows(twoPuts.last)

\* C4 (as claimed): the rows of a block are exactly one per table and hold, in
\* every column, the values of the snapshot committed last for that block.
C4_Overwrites ==
  \A b \in Blocks : lastCommitted[b] # NoData => HasExactRows(lastCommitted[b])

\* the token metrics read back from the rows of block b
TokensReadBack(b) ==
  UNION {{ReadBackToken(t, row) : row \in RowsAt(db[t], b)} : t \in TokenTables(db)}

\* C16 (as claimed): once storeMetrics(s) has committed, the rows of
\* s.blockNumber read back as s: every field of the aggregate is in the
\* market row with the value it has in s, and the token metrics read back are
\* the token metrics of s, field by field.
C16_RoundTrip ==
  \A b \in Blocks :
    lastCommitted[b] # NoData =>
      LET s == lastCommitted[b]
      IN /\ \A f \in DOMAIN s \ {"tokenMetrics"} :
              \E row \in RowsAt(db[MarketTable], b) :
                /\ f \in DOMAIN ReadBackMarket(row)
                /\ ReadBackMarket(row)[f] = s[f]
         /\ TokensReadBack(b) = Tokens(s)

----------------------------------------------------------------------------
(* Claims about startContinuousIndexing, checked under Spec *)

\* the runs of the callback that are ingesting: past the head check, in the
\* settling delay, reading the chain or storing
Ingesting == {i \in Slots : tick[i].pc \in {"delay", "read", "store"}}

\* C5 (as claimed): at most one ingestion is in flight at any time.
C5_OneIngestion == Cardinality(Ingesting) <= 1

\* C6 (as claimed): no block is stored by the poller more than once, and the
\* blocks of successive successful stores are strictly increasing.
C6_ExactlyOnceInOrder == ~dupStore /\ ~outOfOrder

\* C7 (as claimed): no step of the poller lowers lastProcessedBlock.
C7_CursorNeverDecreases == [][lastProcessedBlock' >= lastProcessedBlock]_vars

\* C8: the cursor is advanced only after the block is durably stored. Whenever
\* the cursor is at a block b above the start block, a storeMetrics call for b
\* has committed, and the committed rows hold a market row for b and a row
\* for b in the table of every reserve the chain has at b.
C8_CursorAfterStore ==
  (pollerPc \in {"running", "stopped"} /\ lastProcessedBlock > startBlock) =>
    LET b == lastProcessedBlock
    IN /\ b \in storedBlocks
       /\ lastCommitted[b] # NoData
       /\ Len(lastCommitted[b].tokenMetrics) = Len(chain[b])
       /\ HasAllRows(lastCommitted[b])

\* the cursor stands at a block after the start block, and the rows of that
\* block are committed
C8_Witness ==
  /\ pollerPc = "running"
  /\ lastProcessedBlock > startBlock
  /\ HasAllRows(lastCommitted[lastProcessedBlock])

\* C9: a run of the callback that ends in the catch, whatever step failed
\* (head query, read, or a statement of the store), leaves lastProcessedBlock
\* as it was, and the loop goes on: the poller is still running with its timer
\* armed; and whenever it is so with a free run, the timer can fire and start
\* a run whose first step is the head check against the head of that moment.
C9_FailureKeepsLoop ==
  /\ [][\A i \in Slots :
          (tick[i].pc \in {"head", "read", "store"} /\ tick'[i] = EndedTick("error"))
            => /\ lastProcessedBlock' = lastProcessedBlock
               /\ pollerPc' = "running"
               /\ timerArmed']_vars
  /\ [](pollerPc = "running" =>
          /\ timerArmed
          /\ (\E i \in Slots : tick[i].pc = "idle") => ENABLED (\E i \in Slots : TimerFire(i))
          /\ \A i \in Slots : tick[i].pc = "head" => ENABLED (TickHead(i)))

\* a run failed in the store of a block it had read (the files of the block
\* are written, no row of it is committed, no run has it in hand), the block
\* is still ahead of the cursor and the timer is armed
C9_Witness ==
  /\ pollerPc = "running" /\ timerArmed
  /\ \E i \in Slots : tick[i] = EndedTick("error")
  /\ \E b \in readBlocks \ storedBlocks :
       /\ b > lastProcessedBlock
       /\ \A i \in Slots : tick[i].blockNumber # b

\* C10: the start block is never ingested, and only a head strictly above the
\* cursor starts an ingestion. No run has the start block in hand, reads it or
\* stores it; a head check that finds head <= lastProcessedBlock ends the run
\* with the store, the files, the reads made and the cursor all unchanged; and
\* a run goes past the head check only with a head above the cursor.
C10_HeadCheck ==
  /\ [](/\ startBlock \notin readBlocks \cup storedBlocks \cup blockFiles
        /\ \A i \in Ingesting : tick[i].blockNumber > startBlock)
  /\ [][\A i \in Slots :
          /\ (tick[i].pc = "head" /\ tick'[i] = EndedTick("noop"))
               => /\ head <= lastProcessedBlock
                  /\ UNCHANGED <<storeVars, fileVars, lastProcessedBlock, histVars>>
          /\ (tick[i].pc = "head" /\ tick'[i].pc = "delay")
               => /\ head > lastProcessedBlock
                  /\ tick'[i].blockNumber = head
          /\ (tick[i].pc = "head" /\ head <= lastProcessedBlock)
               => tick'[i].pc \notin {"delay", "read", "store"}]_vars

\* after a block was ingested, a run found no head above the cursor and ended
\* as a no-op
C10_Witness ==
  /\ storedBlocks # {}
  /\ head = lastProcessedBlock
  /\ \E i \in Slots : tick[i] = EndedTick("noop")

\* C11 (as claimed): a run that finds head h above the cursor c reads and
\* stores block h and no other, and none of the blocks c+1 .. h-1 it passed
\* over is ever ingested.
C11_OnlyLatestHead ==
  /\ \A i \in Slots :
       tick[i].pc = "store" => call[i].arg.blockNumber = tick[i].blockNumber
  /\ skipped \cap storedBlocks = {}

\* C12 (as claimed): the poller reaches Stopped only with every run of the
\* callback completed; the stop signal cuts no run short.
C12_CooperativeStop ==
  pollerPc = "stopped" => \A i \in Slots : tick[i].pc = "idle"

\* the committed rows of block b: the tables that hold one
TablesWithRow(b) == {t \in DOMAIN db : RowsAt(db[t], b) # {}}

\* the tables a snapshot of block b has a row for: the market table and the
\* table of every reserve the chain has at b
TablesOfBlock(b) ==
  {MarketTable} \cup {TableName(chain[b][k].symbol) : k \in 1..Len(chain[b])}

\* C13: the committed rows never hold a half-written snapshot, whenever the
\* stop signal arrives. In every state, the poller stopped with runs cut short
\* included, each block has either a row in the market table and in the table
\* of every one of its reserves, or no row in any table.
C13_NoHalfSnapshot ==
  \A b \in DOMAIN chain :
    TablesWithRow(b) = {} \/ TablesWithRow(b) = TablesOfBlock(b)

\* SIGINT arrived while a run had issued all its upserts and was awaiting
\* COMMIT, and no row of its block is committed; another block is stored whole
C13_Witness ==
  /\ pollerPc = "stopped"
  /\ \E i \in Slots :
       /\ tick[i].pc = "killed" /\ tick[i].outcome = "commit"
       /\ TablesWithRow(tick[i].blockNumber) = {}
  /\ \E b \in DOMAIN chain : TablesWithRow(b) = TablesOfBlock(b)

----------------------------------------------------------------------------
(* Claims about indexBaseAaveMetrics, checked under SpecIndex *)

\* C14 (as claimed): in every snapshot a call returns, with a block number or
\* with none, the reserve data and the incentive data are those of the block
\* the snapshot is labelled with.
C14_SameBlock ==
  index.pc = "done" =>
    /\ index.reservesAt = index.result.metricsData.blockNumber
    /\ index.incentivesAt = index.result.metricsData.blockNumber

\* C15 (as claimed): two calls that read the same raw market data for the
\* same block return equal snapshots, the timestamp included.
C15_Deterministic ==
  (/\ index.pc = "done"
   /\ index.previous # NoData
   /\ index.previous.reservesAt = index.result.reservesAt
   /\ index.previous.incentivesAt = index.result.incentivesAt
   /\ index.previous.metricsData.blockNumber = index.result.metricsData.blockNumber)
    => index.previous.metricsData = index.result.metricsData

----------------------------------------------------------------------------
(* Claims about getRecentMetrics, checked under SpecRead *)

\* C17: getRecentMetrics(limit), for a limit >= 0, returns min(limit, number
\* of stored blocks) rows of the market table, in strictly decreasing order of
\* block number, every row left out being of a lower block than every row
\* returned; and no step of it changes the committed rows.
C17_RecentRows ==
  /\ [](recent.pc = "returned" =>
          LET rows == recent.rows
              stored == Cardinality(db[MarketTable])
          IN /\ Len(rows) = IF recent.limit < stored THEN recent.limit ELSE stored
             /\ \A k \in 1..Len(rows) : rows[k] \in db[MarketTable]
             /\ \A k \in 1..(Len(rows) - 1) :
                  rows[k].block_number > rows[k + 1].block_number
             /\ \A row \in db[MarketTable] \ Range(rows) :
                  \A k \in 1..Len(rows) : row.block_number < rows[k].block_number)
  /\ [][recent' # recent => db' = db]_vars

\* a call returned the two highest of three stored blocks
C17_Witness ==
  /\ recent.pc = "returned"
  /\ recent.limit = 2
  /\ Len(recent.rows) = 2
  /\ Cardinality(db[MarketTable]) = 3

----------------------------------------------------------------------------
(* Claims about two concurrent calls of storeMetrics, checked under SpecPair *)

\* the call of caller i is over
Over(i) == puts[i].arg # NoData /\ call[i].pc \in {"returned", "threw"}

\* the calls of callers i and j were in progress at the same moment
Overlapped(i, j) == i # j /\ puts[i].overlap /\ puts[j].overlap

\* C18 (as claimed): two overlapping calls for different blocks do not touch
\* each other's rows. Once both are over, the rows of the block of a call that
\* committed are those of its snapshot, whether the other call committed or
\* failed.
C18_DifferentBlocks ==
  \A i \in Slots : \A j \in Slots :
    (/\ Overlapped(i, j)
     /\ Over(i)
     /\ Over(j)
     /\ puts[i].arg.blockNumber # puts[j].arg.blockNumber
     /\ call[i].pc = "returned")
      => HasExactRows(puts[i].arg)

\* no table holds a row of the block of m for a token that is not in m
OnlyRowsOf(m) ==
  \A t \in TokenTables(db) :
    RowsAt(db[t], m.blockNumber) # {} => \E token \in Tokens(m) : TableName(token.symbol) = t

\* the call of caller i is at an upsert whose row another transaction holds
Blocked(i) ==
  \/ call[i].pc = "market" /\ ~LockFree(i, MarketTable, call[i].arg.blockNumber)
  \/ /\ call[i].pc = "token"
     /\ CurrentTable(i) \in DOMAIN db
     /\ ~LockFree(i, CurrentTable(i), call[i].arg.blockNumber)

\* C19 (as claimed): two overlapping calls for the same block never wait for
\* each other both at once, and once both have committed every row of the
\* block comes from one of the two snapshots, the same one for every table.
C19_SameBlock ==
  /\ ~(\A i \in Slots : Blocked(i))
  /\ \A i \in Slots : \A j \in Slots :
       (/\ Overlapped(i, j)
        /\ call[i].pc = "returned" /\ puts[i].arg # NoData
        /\ call[j].pc = "returned" /\ puts[j].arg # NoData
        /\ puts[i].arg.blockNumber = puts[j].arg.blockNumber)
         => \E winner \in {puts[i].arg, puts[j].arg} :
              HasExactRows(winner) /\ OnlyRowsOf(winner)

\* C20 (as claimed): after initializeDatabase, the table of a token exists by
\* the time storeMetrics writes the token's row: a token that had no table
\* at initialisation gets its table from the call.
C20_LazyTable ==
  \A i \in Slots : call[i].pc = "token" => CurrentTable(i) \in DOMAIN db

----------------------------------------------------------------------------
(* Claims about the caps storeMetrics writes, checked under SpecPair *)

\* the token rows a call has sent in its open transaction
SentTokenRows ==
  UNION {{w.row : w \in {x \in call[i].tx : x.table # MarketTable}} : i \in Slots}

\* the committed token rows
StoredTokenRows == UNION {db[t] : t \in TokenTables(db)}

\* C21: no token row sent to the store or stored holds Infinity as a cap, and
\* in the row of a token of the snapshot committed last for a block,
\* supply_cap is NULL exactly when the snapshot's supplyCap is Infinity and is
\* the snapshot's supplyCap otherwise; likewise borrow_cap.
C21_CapsNull ==
  /\ \A row \in SentTokenRows \cup StoredTokenRows :
       row.supply_cap # Infinity /\ row.borrow_cap # Infinity
  /\ \A b \in Blocks : lastCommitted[b] # NoData =>
       \A token \in Tokens(lastCommitted[b]) :
         \A row \in RowsAt(db[TableName(token.symbol)], b) :
           /\ row.supply_cap = Null <=> token.supplyCap = Infinity
           /\ token.supplyCap # Infinity => row.supply_cap = token.supplyCap
           /\ row.borrow_cap = Null <=> token.borrowCap = Infinity
           /\ token.borrowCap # Infinity => row.borrow_cap = token.borrowCap

\* a snapshot with no supply cap and a borrow cap of 800 for WETH is stored:
\* the row has NULL and 800
C21_Witness ==
  /\ lastCommitted[2] = SnapD
  /\ \E row \in RowsAt(db[TableName(WETH)], 2) :
       row.supply_cap = Null /\ row.borrow_cap = Finite(800)

----------------------------------------------------------------------------
(* SpecTransform: the two transformers applied to formatted reserves *)

\* what the reader can return for one reserve: nothing supplied, supplied and
\* partly, not or fully borrowed; a price of 2 USD in the units of either
\* divisor; no cap or a cap
Amounts == {<<0, 0>>, <<1000, 400>>, <<1000, 0>>, <<500, 500>>}
Prices == {2, 200}
Caps == {Infinity, Finite(900)}

ReservesOf(symbol, name) ==
  {Reserve(symbol, name, price, amount[1], amount[2], cap) :
     price \in Prices, amount \in Amounts, cap \in Caps}

\* markets of no, one and two reserves
ReserveLists ==
  {<<>>} \cup {<<r>> : r \in ReservesOf(WETH, "Wrapped Ether")}
         \cup {<<r, q>> : r \in ReservesOf(WETH, "Wrapped Ether"),
                          q \in ReservesOf(USDC, "USD Coin")}

InitTransform ==
  /\ transform \in {[reserves |-> list, by |-> "none", snapshot |-> NoData] :
                      list \in ReserveLists}
  /\ db = <<>>
  /\ call = [i \in Slots |-> IdleCall]
  /\ outstanding = 0
  /\ latestFile = NoData
  /\ blockFiles = {}
  /\ fetchedFiles = <<>>
  /\ lastProduced = NoData
  /\ lastCommitted = [b \in Blocks |-> NoData]
  /\ twoPuts = [last |-> NoData, again |-> FALSE, changed |-> FALSE]
  /\ head = 1
  /\ chain = <<>>
  /\ pollerPc = "off"
  /\ startBlock = 0
  /\ lastProcessedBlock = 0
  /\ timerArmed = FALSE
  /\ tick = <<>>
  /\ readBlocks = {}
  /\ storedBlocks = {}
  /\ lastStored = 0
  /\ dupStore = FALSE
  /\ outOfOrder = FALSE
  /\ skipped = {}
  /\ index = IdleIndex
  /\ recent = IdleRecent
  /\ puts = [i \in Slots |-> IdlePut]
  /\ diff = NoData
  /\ cli = NoData

transformFrame ==
  <<storeVars, fileVars, chainVars, pollerVars, histVars, index, recent, puts, diff, cli>>

\* lines 139-259 of indexBaseAaveMetrics, for block 1 read at wall-clock time ts
TransformIndexed(ts) ==
  /\ transform' = [transform EXCEPT
       !.by = "indexBaseAaveMetrics",
       !.snapshot = MetricsData(1, ts, transform.reserves)]
  /\ UNCHANGED transformFrame

\* lines 527-601 of fetchBaseMetricsAtBlock(1), the block's timestamp being 1
TransformFetched ==
  /\ transform' = [transform EXCEPT
       !.by = "fetchBaseMetricsAtBlock",
       !.snapshot = BaseMetricsAtBlock(1, [timestamp |-> 1], transform.reserves)]
  /\ UNCHANGED transformFrame

NextTransform ==
  \/ \E ts \in Timestamps : TransformIndexed(ts)
  \/ TransformFetched

SpecTransform == InitTransform /\ [][NextTransform]_vars

----------------------------------------------------------------------------
(* Claims about the transformers, checked under SpecTransform *)

\* C22 (as claimed): no cap of a produced snapshot is the number Infinity: the
\* reader's mark of no cap becomes an unbounded value that is neither
\* Infinity nor a finite number, and a finite cap is kept.
C22_CapSentinel ==
  transform.snapshot # NoData =>
    \A k \in 1..Len(transform.reserves) :
      LET reserve == transform.reserves[k]
          token == transform.snapshot.tokenMetrics[k]
      IN /\ token.supplyCap # Infinity
         /\ token.borrowCap # Infinity
         /\ reserve.supplyCap \in {NumericString(cap) : cap \in Caps \ {Infinity}}
              => token.supplyCap = parseFloat(reserve.supplyCap)
         /\ reserve.borrowCap \in {NumericString(cap) : cap \in Caps \ {Infinity}}
              => token.borrowCap = parseFloat(reserve.borrowCap)

\* C23: in every produced snapshot, each token metric has utilizationRate =
\* totalBorrowed / totalSupplied * 100, or 0 when nothing is supplied, and
\* its USD totals are the totals times its priceInUSD.
C23_TokenFigures ==
  transform.snapshot # NoData =>
    \A token \in Tokens(transform.snapshot) :
      /\ token.totalSupplied > 0 =>
           token.utilizationRate * token.totalSupplied = token.totalBorrowed * 100
      /\ token.totalSupplied = 0 => token.utilizationRate = 0
      /\ token.totalSuppliedUSD = token.totalSupplied * token.priceInUSD
      /\ token.totalBorrowedUSD = token.totalBorrowed * token.priceInUSD

\* a snapshot was made of 1000 supplied and 400 borrowed at 2 USD, giving
\* 2000, 800 and 40, and of a reserve with nothing supplied, giving 0
C23_Witness ==
  /\ transform.snapshot # NoData
  /\ Len(transform.reserves) = 2
  /\ LET token == transform.snapshot.tokenMetrics[1]
     IN /\ token.totalSupplied = 1000 /\ token.totalBorrowed = 400
        /\ token.priceInUSD = 2
        /\ token.totalSuppliedUSD = 2000 /\ token.totalBorrowedUSD = 800
        /\ token.utilizationRate = 40
  /\ LET token == transform.snapshot.tokenMetrics[2]
     IN token.totalSupplied = 0 /\ token.utilizationRate = 0

\* C24: in every produced snapshot averageUtilization = totalBorrows /
\* totalMarketSize * 100, or 0 when totalMarketSize is 0; totalAvailable =
\* totalMarketSize - totalBorrows; tokenCount is the number of token metrics.
C24_Aggregate ==
  transform.snapshot # NoData =>
    LET m == transform.snapshot
    IN /\ m.totalMarketSize > 0 =>
            m.averageUtilization = (m.totalBorrows * 100) \div m.totalMarketSize
       /\ m.totalMarketSize = 0 => m.averageUtilization = 0
       /\ m.totalAvailable = m.totalMarketSize - m.totalBorrows
       /\ m.tokenCount = Len(m.tokenMetrics)

\* a snapshot was made of a market of two reserves with 2000 USD supplied
\* and 800 USD borrowed
C24_Witness ==
  /\ transform.snapshot # NoData
  /\ transform.snapshot.tokenCount = 2
  /\ transform.snapshot.totalMarketSize = 2000
  /\ transform.snapshot.totalBorrows = 800
  /\ transform.snapshot.averageUtilization = 40
  /\ transform.snapshot.totalAvailable = 1200

\* C25 (as claimed): in every produced snapshot totalMarketSize is the sum of
\* the token metrics' totalSuppliedUSD and totalBorrows the sum of their
\* totalBorrowedUSD.
C25_TotalsAreSums ==
  transform.snapshot # NoData =>
    /\ transform.snapshot.totalMarketSize
         = SumOver(transform.snapshot.tokenMetrics, "totalSuppliedUSD")
    /\ transform.snapshot.totalBorrows
         = SumOver(transform.snapshot.tokenMetrics, "totalBorrowedUSD")

----------------------------------------------------------------------------
(* compareBaseBlockMetrics: what it computes and prints *)

Abs(x) == IF x < 0 THEN -x ELSE x

\* the percent change with 0 for every change from 0
calculatePercentChangeFromZeroIsZero(start, end) ==
  IF start = 0 THEN 0
  ELSE ((end - start) * 100) \div Abs(start)

\* calculatePercentChange (lines 757-760)
calculatePercentChange(start, end) ==
  IF start = 0 THEN (IF end = 0 THEN 0 ELSE 100)
  ELSE ((end - start) * 100) \div Abs(start)

\* a change in percentage points reported as the end value
PointDeltaIsEnd(start, end) == end

\* a change in percentage points (lines 658, 683, 684)
PointDelta(start, end) == end - start

\* one flag for the five fields: all are shown when any differs
ChangedParametersBlanket(startToken, endToken) ==
  IF \/ startToken.reserveFactor # endToken.reserveFactor
     \/ startToken.liquidationThreshold # endToken.liquidationThreshold
     \/ startToken.borrowEnabled # endToken.borrowEnabled
     \/ startToken.supplyCap # endToken.supplyCap
     \/ startToken.borrowCap # endToken.borrowCap
    THEN {"reserveFactor", "liquidationThreshold", "borrowEnabled", "supplyCap", "borrowCap"}
    ELSE {}

\* the protocol parameters shown as changed (lines 661-680)
ChangedParameters(startToken, endToken) ==
  (IF startToken.reserveFactor # endToken.reserveFactor
     THEN {"reserveFactor"} ELSE {})
  \cup (IF startToken.liquidationThreshold # endToken.liquidationThreshold
          THEN {"liquidationThreshold"} ELSE {})
  \cup (IF startToken.borrowEnabled # endToken.borrowEnabled
          THEN {"borrowEnabled"} ELSE {})
  \cup (IF startToken.supplyCap # endToken.supplyCap THEN {"supplyCap"} ELSE {})
  \cup (IF startToken.borrowCap # endToken.borrowCap THEN {"borrowCap"} ELSE {})

\* tokenMetrics.map(t => t.symbol)
SymbolsOf(m) == [k \in 1..Len(m.tokenMetrics) |-> m.tokenMetrics[k].symbol]

RECURSIVE Distinct(_, _)
\* the iteration order of new Set([...]) : first occurrences, in order
Distinct(seq, seen) ==
  IF seq = <<>> THEN <<>>
  ELSE IF Head(seq) \in seen THEN Distinct(Tail(seq), seen)
  ELSE <<Head(seq)>> \o Distinct(Tail(seq), seen \cup {Head(seq)})

\* allTokens (lines 636-639)
AllTokens(startMetrics, endMetrics) ==
  Distinct(SymbolsOf(startMetrics) \o SymbolsOf(endMetrics), {})

\* tokenMetrics.find(t => t.symbol === symbol): the first match, or undefined
Find(tokenMetrics, symbol) ==
  IF \E k \in 1..Len(tokenMetrics) : tokenMetrics[k].symbol = symbol
    THEN tokenMetrics[CHOOSE k \in 1..Len(tokenMetrics) :
                        /\ tokenMetrics[k].symbol = symbol
                        /\ \A j \in 1..(k - 1) : tokenMetrics[j].symbol # symbol]
    ELSE NoData

\* what the callback of allTokens.forEach prints for one symbol (lines 641-699)
TokenChanges(symbol, startMetrics, endMetrics) ==
  LET startToken == Find(startMetrics.tokenMetrics, symbol)
      endToken == Find(endMetrics.tokenMetrics, symbol)
  IN IF startToken # NoData /\ endToken # NoData
       THEN [kind |-> "Compared", symbol |-> symbol, token |-> startToken.token,
             priceChange |-> calculatePercentChange(startToken.priceInUSD,
                                                     endToken.priceInUSD),
             liquidityChange |-> calculatePercentChange(startToken.liquidity,
                                                         endToken.liquidity),
             utilizationChange |-> PointDelta(startToken.utilizationRate,
                                               endToken.utilizationRate),
             changed |-> ChangedParameters(startToken, endToken),
             supplyAPYChange |-> PointDelta(startToken.supplyAPY, endToken.supplyAPY),
             varBorrowAPYChange |-> PointDelta(startToken.variableBorrowAPY,
                                                endToken.variableBorrowAPY)]
     ELSE IF startToken # NoData
       THEN [kind |-> "Removed", symbol |-> symbol, token |-> startToken.token]
     ELSE [kind |-> "Added", symbol |-> symbol, token |-> endToken.token,
           priceInUSD |-> endToken.priceInUSD,
           liquidity |-> endToken.liquidity,
           utilizationRate |-> endToken.utilizationRate]

\* the comparison of two fetched snapshots: the printed token changes in
\* the order of allTokens, and comparisonData.marketChanges (lines 625-626,
\* 641-699, 708-711)
Comparison(startMetrics, endMetrics) ==
  [tokens |-> [k \in 1..Len(AllTokens(startMetrics, endMetrics)) |->
                 TokenChanges(AllTokens(startMetrics, endMetrics)[k],
                              startMetrics, endMetrics)],
   marketChanges |->
     [totalMarketSizeChange |-> calculatePercentChange(startMetrics.totalMarketSize,
                                                        endMetrics.totalMarketSize),
      totalBorrowsChange |-> calculatePercentChange(startMetrics.totalBorrows,
                                                     endMetrics.totalBorrows)]]

----------------------------------------------------------------------------
(* SpecDiff: compareBaseBlockMetrics over a chain of two blocks, and        *)
(* calculatePercentChange over numbers of either sign                       *)

DiffBlocks == {1, 2}
Numbers == {-100, -50, 0, 50, 100}

ProtocolParameters ==
  {"reserveFactor", "liquidationThreshold", "borrowEnabled", "supplyCap", "borrowCap"}

\* the reserve with the parameters of S set to another value
Reconfigured(reserve, S) ==
  [reserve EXCEPT
     !.reserveFactor = IF "reserveFactor" \in S THEN 1 ELSE @,
     !.formattedReserveLiquidationThreshold =
        IF "liquidationThreshold" \in S THEN 85 ELSE @,
     !.borrowingEnabled = IF "borrowEnabled" \in S THEN FALSE ELSE @,
     !.supplyCap = IF "supplyCap" \in S THEN NumericString(Infinity) ELSE @,
     !.borrowCap = IF "borrowCap" \in S THEN NumericString(Finite(800)) ELSE @]

DiffWeth == Reserve(WETH, "Wrapped Ether", 200, 1000, 400, Finite(900))

\* WETH at a block: any subset of its parameters reconfigured, or another
\* price or other amounts
WethAtBlock ==
  {Reconfigured(DiffWeth, S) : S \in SUBSET ProtocolParameters}
    \cup {Reserve(WETH, "Wrapped Ether", price, amount[1], amount[2], Finite(900)) :
            price \in {200, 400}, amount \in {<<0, 0>>, <<500, 500>>}}

\* the market at the later block: WETH alone or with one more asset
EndMarkets ==
  {<<w>> : w \in WethAtBlock}
    \cup {<<w, Reserve(USDC, "USD Coin", 100, 500, 0, Finite(900))>> : w \in WethAtBlock}
    \cup {<<w, Reserve(GHO, "Gho Token", 100, 200, 100, Infinity)>> : w \in WethAtBlock}

\* the market at the earlier block
StartMarkets ==
  {<<DiffWeth>>,
   <<DiffWeth, Reserve(USDC, "USD Coin", 100, 500, 0, Finite(900))>>,
   <<Reconfigured(DiffWeth, ProtocolParameters)>>,
   <<Reserve(WETH, "Wrapped Ether", 200, 0, 0, Finite(900))>>}

InitDiff ==
  /\ head = 2
  /\ chain \in {<<first, second>> : first \in StartMarkets, second \in EndMarkets}
  /\ diff = NoData
  /\ db = <<>>
  /\ call = [i \in Slots |-> IdleCall]
  /\ outstanding = 0
  /\ latestFile = NoData
  /\ blockFiles = {}
  /\ fetchedFiles = <<>>
  /\ lastProduced = NoData
  /\ lastCommitted = [b \in Blocks |-> NoData]
  /\ twoPuts = [last |-> NoData, again |-> FALSE, changed |-> FALSE]
  /\ pollerPc = "off"
  /\ startBlock = 0
  /\ lastProcessedBlock = 0
  /\ timerArmed = FALSE
  /\ tick = <<>>
  /\ readBlocks = {}
  /\ storedBlocks = {}
  /\ lastStored = 0
  /\ dupStore = FALSE
  /\ outOfOrder = FALSE
  /\ skipped = {}
  /\ index = IdleIndex
  /\ recent = IdleRecent
  /\ puts = [i \in Slots |-> IdlePut]
  /\ transform = NoData
  /\ cli = NoData

diffFrame ==
  <<storeVars, fileVars, chainVars, pollerVars, histVars, index, recent, puts,
    transform, cli>>

\* fetchBaseMetricsAtBlock(blockNumber) resolves (lines 511-601): the block
\* exists and its timestamp is its number
FetchedAtBlock(blockNumber) ==
  BaseMetricsAtBlock(blockNumber, [timestamp |-> blockNumber], chain[blockNumber])

\* compareBaseBlockMetrics(startBlock, endBlock) with both fetches resolving
\* (lines 616-721)
CompareBlocks(start, end) ==
  /\ start \in 1..head
  /\ end \in 1..head
  /\ diff' = [pc |-> "compared", startBlock |-> start, endBlock |-> end,
              startMetrics |-> FetchedAtBlock(start),
              endMetrics |-> FetchedAtBlock(end),
              comparison |-> Comparison(FetchedAtBlock(start), FetchedAtBlock(end))]
  /\ UNCHANGED diffFrame

\* compareBaseBlockMetrics with a fetch that rejects, for a block that is
\* not found (line 513) or a reader error: the catch logs it (lines 723-725)
CompareFails(start, end) ==
  /\ diff' = [pc |-> "failed", startBlock |-> start, endBlock |-> end]
  /\ UNCHANGED diffFrame

\* calculatePercentChange(x, y) by itself
PercentChangeOf(x, y) ==
  /\ diff' = [pc |-> "percent", start |-> x, end |-> y,
              change |-> calculatePercentChange(x, y)]
  /\ UNCHANGED diffFrame

NextDiff ==
  \/ \E start \in DiffBlocks, end \in DiffBlocks : CompareBlocks(start, end)
  \/ \E start \in DiffBlocks \cup {3}, end \in DiffBlocks \cup {3} : CompareFails(start, end)
  \/ \E x \in Numbers, y \in Numbers : PercentChangeOf(x, y)

SpecDiff == InitDiff /\ [][NextDiff]_vars

----------------------------------------------------------------------------
(* Claims about the comparison, checked under SpecDiff *)

\* r is the percent change from x to y by the rule of the claim, in whole
\* percents rounded down
PercentRule(x, y, r) ==
  IF x = 0 THEN r = (IF y = 0 THEN 0 ELSE 100)
  ELSE r * Abs(x) <= (y - x) * 100 /\ (y - x) * 100 < (r + 1) * Abs(x)

\* C26: calculatePercentChange(x, y) is 0 for x = 0 and y = 0, 100 for x = 0
\* and any other y, and (y - x) / |x| * 100 otherwise, x and y of either
\* sign; the two aggregate changes of a comparison follow the same rule.
C26_PercentChange ==
  /\ (diff # NoData /\ diff.pc = "percent") =>
       /\ PercentRule(diff.start, diff.end, diff.change)
       /\ diff.start # 0 => diff.change * Abs(diff.start) = (diff.end - diff.start) * 100
  /\ (diff # NoData /\ diff.pc = "compared") =>
       /\ PercentRule(diff.startMetrics.totalMarketSize, diff.endMetrics.totalMarketSize,
                      diff.comparison.marketChanges.totalMarketSizeChange)
       /\ PercentRule(diff.startMetrics.totalBorrows, diff.endMetrics.totalBorrows,
                      diff.comparison.marketChanges.totalBorrowsChange)

\* the change from -50 to 50 is 200 percent
C26_Witness ==
  /\ diff # NoData
  /\ diff.pc = "percent"
  /\ diff.start = -50
  /\ diff.end = 50
  /\ diff.change = 200

\* C27: a comparison of a snapshot with itself has, for every asset, zero
\* percent change of price and liquidity, zero change of utilization and of
\* the APYs, no parameter shown as changed, no asset Added or Removed, and
\* zero aggregate changes.
C27_SelfCompare ==
  (diff # NoData /\ diff.pc = "compared" /\ diff.startMetrics = diff.endMetrics) =>
    /\ \A k \in 1..Len(diff.comparison.tokens) :
         LET entry == diff.comparison.tokens[k]
         IN /\ entry.kind = "Compared"
            /\ entry.priceChange = 0
            /\ entry.liquidityChange = 0
            /\ entry.utilizationChange = 0
            /\ entry.supplyAPYChange = 0
            /\ entry.varBorrowAPYChange = 0
            /\ entry.changed = {}
    /\ diff.comparison.marketChanges.totalMarketSizeChange = 0
    /\ diff.comparison.marketChanges.totalBorrowsChange = 0

\* block 2, with two assets in use, was compared with itself
C27_Witness ==
  /\ diff # NoData
  /\ diff.pc = "compared"
  /\ diff.startBlock = 2
  /\ diff.endBlock = 2
  /\ Len(diff.comparison.tokens) = 2
  /\ diff.startMetrics.tokenMetrics[1].utilizationRate = 40

\* the symbols of a snapshot
SymbolSet(m) == {m.tokenMetrics[k].symbol : k \in 1..Len(m.tokenMetrics)}

\* C28 (as claimed): a comparison has exactly one entry for every symbol of
\* either snapshot: Compared for a symbol of both, Removed for one of the
\* start snapshot only, Added for one of the end snapshot only, the Added
\* entry holding every field of the end snapshot's token metric; and the
\* comparison the other way round has Removed where this one has Added.
C28_Classified ==
  (diff # NoData /\ diff.pc = "compared") =>
    LET a == diff.startMetrics
        b == diff.endMetrics
        entries == diff.comparison.tokens
        reverse == Comparison(b, a).tokens
    IN /\ Len(entries) = Cardinality(SymbolSet(a) \cup SymbolSet(b))
       /\ {entries[k].symbol : k \in 1..Len(entries)} = SymbolSet(a) \cup SymbolSet(b)
       /\ \A k \in 1..Len(entries) :
            LET entry == entries[k]
            IN /\ entry.kind = "Compared" <=> entry.symbol \in SymbolSet(a) \cap SymbolSet(b)
               /\ entry.kind = "Removed" <=> entry.symbol \in SymbolSet(a) \ SymbolSet(b)
               /\ entry.kind = "Added" <=> entry.symbol \in SymbolSet(b) \ SymbolSet(a)
               /\ entry.kind = "Added" =>
                    /\ \A f \in DOMAIN Find(b.tokenMetrics, entry.symbol) :
                         /\ f \in DOMAIN entry
                         /\ entry[f] = Find(b.tokenMetrics, entry.symbol)[f]
                    /\ \E j \in 1..Len(reverse) :
                         reverse[j].symbol = entry.symbol /\ reverse[j].kind = "Removed"

\* C29: for an asset of both snapshots, each of reserveFactor,
\* liquidationThreshold, borrowEnabled, supplyCap and borrowCap is shown as
\* changed exactly when its own value differs between the two snapshots.
C29_FlagsByField ==
  (diff # NoData /\ diff.pc = "compared") =>
    \A k \in 1..Len(diff.comparison.tokens) :
      LET entry == diff.comparison.tokens[k]
          startToken == Find(diff.startMetrics.tokenMetrics, entry.symbol)
          endToken == Find(diff.endMetrics.tokenMetrics, entry.symbol)
      IN entry.kind = "Compared" =>
           \A f \in ProtocolParameters :
             f \in entry.changed <=> startToken[f] # endToken[f]

\* between the two blocks borrowEnabled and supplyCap of WETH changed and the
\* three other parameters did not: those two, and only those, are shown
C29_Witness ==
  /\ diff # NoData
  /\ diff.pc = "compared"
  /\ diff.startBlock = 1
  /\ diff.endBlock = 2
  /\ diff.comparison.tokens[1].kind = "Compared"
  /\ diff.comparison.tokens[1].changed = {"borrowEnabled", "supplyCap"}

----------------------------------------------------------------------------
(* SpecCli: the one-shot commands, each a process that runs to its exit     *)

\* a market with two bridged forms of one coin, their symbols differing in a
\* character that is neither a letter nor a digit
USDC_DOT_E == <<"U","S","D","C",".","e">>
USDC_DASH_E == <<"U","S","D","C","-","e">>
ReservesE == <<Reserve(USDC_DOT_E, "USD Coin (bridged)", 1, 500, 100, Finite(900)),
               Reserve(USDC_DASH_E, "USD Coin (wrapped)", 1, 300, 0, Infinity)>>
SnapE == MetricsData(2, 2, ReservesE)

\* JSON.parse of what JSON.stringify wrote: a cap of Infinity comes back as
\* null (base-metrics-indexer.js lines 271-275, db-storage.js line 203)
JsonRoundTrip(metricsData) ==
  [metricsData EXCEPT !.tokenMetrics =
     [k \in 1..Len(metricsData.tokenMetrics) |->
        [metricsData.tokenMetrics[k] EXCEPT
           !.supplyCap = IF @ = Infinity THEN Null ELSE @,
           !.borrowCap = IF @ = Infinity THEN Null ELSE @]]]

\* a command that was started, and one that exited
Started(command, pc) ==
  [command |-> command, pc |-> pc, failure |-> "none", exit |-> NoData]
Exited(failure, code) ==
  [cli EXCEPT !.pc = "exited", !.failure = failure, !.exit = [code |-> code]]

NoProcess == IF cli = NoData THEN TRUE ELSE cli.pc = "exited"

InitCli ==
  /\ cli = NoData
  /\ latestFile \in {NoData, SnapA, SnapC, SnapE}
  /\ head = 2
  /\ chain = [b \in 1..2 |-> Market(b, FALSE)]
  /\ db = <<>>
  /\ call = [i \in Slots |-> IdleCall]
  /\ outstanding = 0
  /\ blockFiles = {}
  /\ fetchedFiles = <<>>
  /\ lastProduced = NoData
  /\ lastCommitted = [b \in Blocks |-> NoData]
  /\ twoPuts = [last |-> NoData, again |-> FALSE, changed |-> FALSE]
  /\ pollerPc = "off"
  /\ startBlock = 0
  /\ lastProcessedBlock = 0
  /\ timerArmed = FALSE
  /\ tick = <<>>
  /\ readBlocks = {}
  /\ storedBlocks = {}
  /\ lastStored = 0
  /\ dupStore = FALSE
  /\ outOfOrder = FALSE
  /\ skipped = {}
  /\ index = IdleIndex
  /\ recent = IdleRecent
  /\ puts = [i \in Slots |-> IdlePut]
  /\ transform = NoData
  /\ diff = NoData

cliFrame ==
  <<fileVars, chainVars, pollerVars, histVars, index, recent, puts, transform, diff>>

\* `node src/db-storage.js store` starts (lines 284-299)
CliStore ==
  /\ NoProcess
  /\ cli' = Started("store", "init")
  /\ UNCHANGED <<storeVars, cliFrame>>

\* `await initializeDatabase()` (line 297): all statements succeed, or the
\* first n do and the error reaches the catch of lines 315-317: process.exit(1)
CliStoreInitialize(n) ==
  /\ cli # NoData
  /\ cli.command = "store"
  /\ cli.pc = "init"
  /\ InitializeDatabase(n)
  /\ cli' = IF n = Len(SchemaTables) THEN [cli EXCEPT !.pc = "latest"]
            ELSE Exited("storage error", 1)
  /\ UNCHANGED cliFrame

\* storeLatestMetrics finds no latest file: it logs and returns (lines
\* 198-201); the finally closes the pool and the process ends by itself
CliStoreNoLatestFile ==
  /\ cli # NoData
  /\ cli.command = "store"
  /\ cli.pc = "latest"
  /\ latestFile = NoData
  /\ cli' = Exited("missing latest-metrics file", 0)
  /\ UNCHANGED <<storeVars, cliFrame>>

\* storeLatestMetrics reads the file and calls storeMetrics (lines 203-204)
CliStoreLatest ==
  /\ cli # NoData
  /\ cli.command = "store"
  /\ cli.pc = "latest"
  /\ latestFile # NoData
  /\ StoreInvoke(1, JsonRoundTrip(latestFile))
  /\ cli' = [cli EXCEPT !.pc = "storing"]
  /\ UNCHANGED cliFrame

\* storeMetrics returned: the command ends, the process ends by itself
CliStoreStored ==
  /\ cli # NoData
  /\ cli.pc = "storing"
  /\ call[1].pc = "returned"
  /\ cli' = Exited("none", 0)
  /\ UNCHANGED <<storeVars, cliFrame>>

\* storeMetrics threw: storeLatestMetrics rethrows (lines 208-210), the catch
\* of lines 315-317 exits with 1
CliStoreThrew ==
  /\ cli # NoData
  /\ cli.pc = "storing"
  /\ call[1].pc = "threw"
  /\ cli' = Exited("storage error", 1)
  /\ UNCHANGED <<storeVars, cliFrame>>

\* `node base-historical-metrics.js <blockNumber>` starts (lines 813-822)
CliFetch(blockNumber) ==
  /\ NoProcess
  /\ cli' = Started("fetch", "fetching") @@ [blockNumber |-> blockNumber]
  /\ UNCHANGED <<storeVars, cliFrame>>

\* fetchBaseMetricsAtBlock resolves, the block being found (lines 511-601),
\* and data/base-block-N.json is written (lines 823-839)
CliFetchDone ==
  /\ cli # NoData
  /\ cli.pc = "fetching"
  /\ cli.blockNumber <= head
  /\ cli' = Exited("none", 0)
  /\ LET metrics == FetchedAtBlock(cli.blockNumber)
     IN /\ fetchedFiles' = (cli.blockNumber :> metrics) @@ fetchedFiles
        /\ lastProduced' = metrics
  /\ UNCHANGED <<storeVars, latestFile, blockFiles, chainVars, pollerVars, histVars,
                 index, recent, puts, transform, diff>>

\* fetchBaseMetricsAtBlock rejects, the block not being found (line 513) or
\* the reader failing: the .catch exits with 1 (lines 840-843)
CliFetchRejected ==
  /\ cli # NoData
  /\ cli.pc = "fetching"
  /\ cli' = Exited(IF cli.blockNumber > head THEN "missing block" ELSE "reader error", 1)
  /\ UNCHANGED <<storeVars, cliFrame>>

\* `node base-historical-metrics.js <startBlock> <endBlock>` starts (lines
\* 802-812)
CliCompare(start, end) ==
  /\ NoProcess
  /\ cli' = Started("diff", "comparing") @@ [startBlock |-> start, endBlock |-> end]
  /\ UNCHANGED <<storeVars, cliFrame>>

\* compareBaseBlockMetrics ran to its end (lines 616-721)
CliCompareDone ==
  /\ cli # NoData
  /\ cli.pc = "comparing"
  /\ cli.startBlock <= head
  /\ cli.endBlock <= head
  /\ cli' = Exited("none", 0)
  /\ UNCHANGED <<storeVars, cliFrame>>

\* a fetch of compareBaseBlockMetrics rejects: its catch logs the error and
\* the function returns (lines 723-725); the process ends by itself
CliCompareRejected ==
  /\ cli # NoData
  /\ cli.pc = "comparing"
  /\ cli' = Exited(IF cli.startBlock > head \/ cli.endBlock > head
                     THEN "missing block" ELSE "reader error", 0)
  /\ UNCHANGED <<storeVars, cliFrame>>

NextCli ==
  \/ CliStore
  \/ \E n \in 0..Len(SchemaTables) : CliStoreInitialize(n)
  \/ CliStoreNoLatestFile
  \/ CliStoreLatest
  \/ ApiConnect(1)
  \/ ApiConnectFail(1)
  \/ ApiBegin(1)
  \/ ApiUpsertMarket(1)
  \/ ApiUpsertToken(1)
  \/ ApiQueryFail(1)
  \/ ApiCommit(1)
  \/ ApiRollback(1)
  \/ CliStoreStored
  \/ CliStoreThrew
  \/ \E blockNumber \in 1..(head + 1) : CliFetch(blockNumber)
  \/ CliFetchDone
  \/ CliFetchRejected
  \/ \E start \in 1..(head + 1), end \in 1..(head + 1) : CliCompare(start, end)
  \/ CliCompareDone
  \/ CliCompareRejected

SpecCli == InitCli /\ [][NextCli]_vars

----------------------------------------------------------------------------
(* Claims about the one-shot commands, checked under SpecCli *)

\* C30 (as claimed): a one-shot command that met a failure never exits with
\* status 0.
C30_NonZeroExit ==
  (cli # NoData /\ cli.pc = "exited" /\ cli.failure # "none") => cli.exit.code # 0

----------------------------------------------------------------------------
(* Claims about initializeDatabase, checked under SpecStore *)

\* the tables of the database, without their rows
TablesOf(tables) == DOMAIN tables

\* C31: initializeDatabase is idempotent for one list of known assets: a run
\* after a run gives the tables of one run, a run over existing tables creates
\* nothing, and every step of a run (a whole one or one cut short) keeps every
\* table there was with the rows it had.
C31_Idempotent ==
  /\ [](LET once == CreateTables(db, SchemaTables)
        IN /\ CreateTables(once, SchemaTables) = once
           /\ TablesOf(once) = TablesOf(db) \cup Range(SchemaTables)
           /\ Range(SchemaTables) \subseteq TablesOf(db) => once = db)
  /\ [][call' = call =>
          /\ \A t \in TablesOf(db) : t \in TablesOf(db') /\ db'[t] = db[t]
          /\ TablesOf(db') \subseteq TablesOf(db) \cup Range(SchemaTables)]_vars

\* all tables exist, a block is stored, and a further run changes nothing
C31_Witness ==
  /\ Range(SchemaTables) \subseteq TablesOf(db)
  /\ \E t \in TablesOf(db) : db[t] # {}
  /\ \A i \in Slots : call[i].pc \in {"idle", "returned", "threw"}
  /\ CreateTables(db, SchemaTables) = db

----------------------------------------------------------------------------
(* SpecIngest: the two one-shot ways to a snapshot, a call of               *)
(* indexBaseAaveMetrics(blockNumber, false) and the single-block fetch      *)
(* command, while the chain grows                                           *)

\* a block number given to an operation: the head's, or the one after it,
\* which is not there yet
BlocksAsked == {head, head + 1}

InitIngest == InitIndex

NextIngest ==
  \/ NewBlock(FALSE)
  \/ \E blockNumber \in {Null} \cup {[number |-> n] : n \in BlocksAsked} :
       IndexInvoke(blockNumber)
  \/ IndexHead
  \/ IndexReserves
  \/ IndexIncentives(Now)
  \/ IndexFail
  \/ \E blockNumber \in BlocksAsked : CliFetch(blockNumber)
  \/ CliFetchDone
  \/ CliFetchRejected

SpecIngest == InitIngest /\ [][NextIngest]_vars

----------------------------------------------------------------------------
(* Claims about the one-shot ingestions, checked under SpecIngest *)

\* the blocks a snapshot was written for, in a file or in the database
BlocksWritten ==
  blockFiles \cup DOMAIN fetchedFiles
    \cup (IF latestFile = NoData THEN {} ELSE {latestFile.blockNumber})
    \cup {r.block_number : r \in UNION {db[t] : t \in DOMAIN db}}

\* the call of indexBaseAaveMetrics awaits a read tagged with a block that is
\* not there
IndexAsksMissing ==
  /\ index.pc \in {"reserves", "incentives"}
  /\ Truthy(index.blockNumber)
  /\ index.blockNumber.number > head

\* the fetch command awaits getBlock for a block that is not there
FetchAsksMissing ==
  IF cli = NoData THEN FALSE ELSE cli.pc = "fetching" /\ cli.blockNumber > head

C33_LatestMirrors ==
  lastProduced # NoData => latestFile = lastProduced

----------------------------------------------------------------------------
(* Claims about re-ingestion, checked under SpecPair *)

\* the per-asset tables that hold a row of block b
AssetTablesWithRow(b) == {t \in TokenTables(db) : RowsAt(db[t], b) # {}}

\* C34 (as claimed): the per-asset tables that hold a row of a block are the
\* tables of the assets of the snapshot committed last for the block.
C34_Replaces ==
  \A b \in Blocks :
    lastCommitted[b] # NoData =>
      AssetTablesWithRow(b) = {TableName(token.symbol) : token \in Tokens(lastCommitted[b])}

----------------------------------------------------------------------------
(* Claims about the tables of the assets, checked under SpecCli *)

\* the symbols of the snapshot are pairwise distinct
DistinctSymbols(m) ==
  \A j, k \in 1..Len(m.tokenMetrics) :
    j # k => m.tokenMetrics[j].symbol # m.tokenMetrics[k].symbol

\* the per-asset rows of block b, each with its table
AssetRows(b) ==
  UNION {{<<t, r>> : r \in RowsAt(db[t], b)} : t \in TokenTables(db)}

\* C36 (as claimed): a committed snapshot of N tokens with pairwise distinct
\* symbols has N per-asset rows for its block, in N tables.
C36_DistinctTables ==
  \A b \in Blocks :
    (lastCommitted[b] # NoData /\ DistinctSymbols(lastCommitted[b])) =>
      Cardinality(AssetRows(b)) = Len(lastCommitted[b].tokenMetrics)

----------------------------------------------------------------------------
(* SpecPool: the three functions that take a client from the pool, called   *)
(* alongside each other: initializeDatabase step by step (the `init`        *)
(* command), storeMetrics and getRecentMetrics                              *)

InitPool ==
  /\ InitRead
  /\ db = <<>>

\* `node src/db-storage.js init` starts: `await pool.connect()` of
\* initializeDatabase is pending (lines 292-294, 18)
CliInit ==
  /\ NoProcess
  /\ cli' = Started("init", "connect")
  /\ UNCHANGED <<storeVars, cliFrame>>

\* pool.connect() resolves (line 18)
CliInitConnect ==
  /\ cli # NoData
  /\ cli.command = "init"
  /\ cli.pc = "connect"
  /\ cli' = [cli EXCEPT !.pc = "schema"]
  /\ outstanding' = outstanding + 1
  /\ UNCHANGED <<db, call, lastCommitted, twoPuts, cliFrame>>

\* pool.connect() rejects: outside the try of initializeDatabase, no client
\* was taken; the catch of main exits with 1 (lines 18, 315-317)
CliInitConnectFail ==
  /\ cli # NoData
  /\ cli.command = "init"
  /\ cli.pc = "connect"
  /\ cli' = Exited("storage error", 1)
  /\ UNCHANGED <<storeVars, cliFrame>>

\* the CREATE TABLE statements, the first n of them succeeding, then the
\* finally releases the client (lines 20-89); a failure is rethrown
CliInitSchema(n) ==
  /\ cli # NoData
  /\ cli.command = "init"
  /\ cli.pc = "schema"
  /\ db' = CreateTables(db, SubSeq(SchemaTables, 1, n))
  /\ outstanding' = outstanding - 1
  /\ cli' = IF n = Len(SchemaTables) THEN Exited("none", 0) ELSE Exited("storage error", 1)
  /\ UNCHANGED <<call, lastCommitted, twoPuts, cliFrame>>

NextPool ==
  \/ CliInit
  \/ CliInitConnect
  \/ CliInitConnectFail
  \/ \E n \in 0..Len(SchemaTables) : CliInitSchema(n)
  \/ \E i \in Slots : ApiInvoke(i, SnapA)
  \/ \E i \in Slots : ApiConnect(i)
  \/ \E i \in Slots : ApiConnectFail(i)
  \/ \E i \in Slots : ApiBegin(i)
  \/ \E i \in Slots : ApiUpsertMarket(i)
  \/ \E i \in Slots : ApiUpsertToken(i)
  \/ \E i \in Slots : ApiQueryFail(i)
  \/ \E i \in Slots : ApiCommit(i)
  \/ \E i \in Slots : ApiRollback(i)
  \/ RecentInvoke(DefaultLimit)
  \/ RecentConnect
  \/ RecentMarketQuery
  \/ RecentTokenQueries
  \/ RecentFail

SpecPool == InitPool /\ [][NextPool]_vars

----------------------------------------------------------------------------
(* Claims about the pool's clients, checked under SpecPool *)

\* the calls that are between their pool.connect() and their finally
HoldingClient ==
  {<<"storeMetrics", i>> : i \in {j \in Slots :
       call[j].pc \in {"begin", "market", "token", "commit", "rollback"}}}
    \cup (IF recent.pc \in {"market", "tokens"} THEN {<<"getRecentMetrics", 0>>} ELSE {})
    \cup (IF cli = NoData THEN {}
          ELSE IF cli.pc = "schema" THEN {<<"initializeDatabase", 0>>} ELSE {})

\* C37: the clients out of the pool are those of the calls in progress, one
\* each: every call that ended, however it ended, released its client once,
\* and with no call in progress no client is outstanding.
C37_Released ==
  outstanding = Cardinality(HoldingClient)

\* all three functions have ended, storeMetrics through its catch after the
\* first token and getRecentMetrics with an error, and no client is out
C37_Witness ==
  /\ outstanding = 0
  /\ HoldingClient = {}
  /\ \E i \in Slots : call[i].pc = "threw" /\ call[i].idx = 2
  /\ \E i \in Slots : call[i].pc = "returned"
  /\ recent.pc = "threw"
  /\ cli # NoData /\ cli.pc = "exited" /\ cli.command = "init"

----------------------------------------------------------------------------
(* Claims about the two transformers together, checked under SpecTransform *)

\* the figures of a snapshot the two paths are compared on
Figures(m) ==
  [timestamp |-> m.timestamp,
   totalMarketSize |-> m.totalMarketSize,
   totalAvailable |-> m.totalAvailable,
   totalBorrows |-> m.totalBorrows,
   averageUtilization |-> m.averageUtilization,
   tokenCount |-> m.tokenCount,
   tokenMetrics |-> m.tokenMetrics]

\* C38 (as claimed): the snapshot fetchBaseMetricsAtBlock made of a block's
\* reserves has the figures of the snapshot indexBaseAaveMetrics makes of the
\* same block and reserves, read at the block's time.
C38_PathsAgree ==
  (transform.snapshot # NoData /\ transform.by = "fetchBaseMetricsAtBlock") =>
    Figures(transform.snapshot) = Figures(MetricsData(1, 1, transform.reserves))

----------------------------------------------------------------------------
(* SpecTest: runs of the smoke test of db-test.js, one after another, over  *)
(* one database. The process is `cli`; its pool is a field of it, the       *)
(* client taken from the pool is counted in `outstanding`.                  *)

MaxTestRows == 6     \* the runs insert no more rows than this

TestTable == <<"aave_metrics_test">>

\* ORDER BY id DESC (line 66)
RECURSIVE OrderByIdDesc(_)
OrderByIdDesc(rows) ==
  IF rows = {} THEN <<>>
  ELSE LET top == CHOOSE r \in rows : \A q \in rows : q.id <= r.id
       IN <<top>> \o OrderByIdDesc(rows \ {top})

\* the next value of the sequence of the SERIAL column id (line 33): above
\* every id given out so far
NextId(rows) == Cardinality(rows) + 1

\* the row of the INSERT of lines 48-61, with the id the sequence gave it
TestRow(id, now) ==
  [id |-> id, block_number |-> 28489250, timestamp |-> now, network |-> "Base",
   total_market_size |-> 600000000, total_borrows |-> 270000000,
   average_utilization |-> 45, token_count |-> 12]

InitTest ==
  /\ InitRead
  /\ db = <<>>

\* `node src/db-test.js`: a new process with a new pool; `await
\* pool.connect()` is pending (lines 9-11, 27, 118-119)
TestStart ==
  /\ NoProcess
  /\ outstanding = 0
  /\ cli' = Started("db-test", "connect") @@
            [pool |-> "open", insertedId |-> 0, recentRecords |-> <<>>]
  /\ UNCHANGED <<storeVars, cliFrame>>

\* pool.connect() resolves (line 27)
TestConnect ==
  /\ cli # NoData
  /\ cli.command = "db-test"
  /\ cli.pc = "connect"
  /\ cli' = [cli EXCEPT !.pc = "create"]
  /\ outstanding' = outstanding + 1
  /\ UNCHANGED <<db, call, lastCommitted, twoPuts, cliFrame>>

\* CREATE TABLE IF NOT EXISTS aave_metrics_test (lines 31-43)
TestCreateTable ==
  /\ cli # NoData
  /\ cli.command = "db-test"
  /\ cli.pc = "create"
  /\ db' = CreateTables(db, <<TestTable>>)
  /\ cli' = [cli EXCEPT !.pc = "insert"]
  /\ UNCHANGED <<call, outstanding, lastCommitted, twoPuts, cliFrame>>

\* INSERT ... RETURNING id at the wall-clock second `now` (lines 47-64)
TestInsert(now) ==
  /\ cli # NoData
  /\ cli.command = "db-test"
  /\ cli.pc = "insert"
  /\ Cardinality(db[TestTable]) < MaxTestRows
  /\ LET insertedId == NextId(db[TestTable])
     IN /\ db' = [db EXCEPT ![TestTable] = @ \cup {TestRow(insertedId, now)}]
        /\ cli' = [cli EXCEPT !.pc = "select", !.insertedId = insertedId]
  /\ UNCHANGED <<call, outstanding, lastCommitted, twoPuts, cliFrame>>

\* SELECT * ... ORDER BY id DESC LIMIT 5, the result file is written and the
\* client released (lines 66-87)
TestSelect ==
  /\ cli # NoData
  /\ cli.command = "db-test"
  /\ cli.pc = "select"
  /\ cli' = [cli EXCEPT !.pc = "finally",
                        !.recentRecords = Limit(OrderByIdDesc(db[TestTable]), 5)]
  /\ outstanding' = outstanding - 1
  /\ UNCHANGED <<db, call, lastCommitted, twoPuts, cliFrame>>

\* pool.connect() or a query rejects: the catch writes the error file (lines
\* 90-110). client.release() of line 87 is in the try and is not reached
TestFail ==
  /\ cli # NoData
  /\ cli.command = "db-test"
  /\ cli.pc \in {"connect", "create", "insert", "select"}
  /\ cli' = [cli EXCEPT !.pc = "finally",
                        !.failure = IF cli.pc = "connect" THEN "connect" ELSE "query"]
  /\ UNCHANGED <<storeVars, cliFrame>>

\* the finally: `await pool.end()` (lines 111-114). The pool ends once every
\* client taken from it is back; with none out the call resolves, the function
\* returns and the .then exits with 0 (lines 120-122). With a client out the
\* pool is ending and the await does not resolve.
TestPoolEnd ==
  /\ cli # NoData
  /\ cli.command = "db-test"
  /\ cli.pc = "finally"
  /\ cli' = IF outstanding = 0
              THEN [cli EXCEPT !.pc = "exited", !.pool = "ended", !.exit = [code |-> 0]]
              ELSE [cli EXCEPT !.pc = "awaiting pool.end", !.pool = "ending"]
  /\ UNCHANGED <<storeVars, cliFrame>>

NextTest ==
  \/ TestStart
  \/ TestConnect
  \/ TestCreateTable
  \/ \E now \in Timestamps : TestInsert(now)
  \/ TestSelect
  \/ TestFail
  \/ TestPoolEnd

SpecTest == InitTest /\ [][NextTest]_vars

----------------------------------------------------------------------------
(* Claims about the smoke test, checked under SpecTest *)

\* the smoke test has gone through its try or its catch
TestPastTry ==
  IF cli = NoData THEN FALSE
  ELSE cli.command = "db-test" /\ cli.pc \in {"finally", "awaiting pool.end", "exited"}

\* the rows read back are at most five, the row just inserted first
RowsReadBack ==
  (TestPastTry /\ cli.failure = "none") =>
     /\ Len(cli.recentRecords) \in 1..5
     /\ cli.recentRecords[1].id = cli.insertedId
     /\ cli.recentRecords[1] \in db[TestTable]

\* once pool.end() was called, after the try or after the catch, the pool has
\* ended
PoolClosed ==
  (TestPastTry /\ cli.pc # "finally") => cli.pool = "ended"

\* C39 (as claimed): in the smoke test the rows read back are at most five
\* with the row just inserted first, and the pool is closed on the success
\* path and on the failure path.
C39_SmokeTest == RowsReadBack /\ PoolClosed

----------------------------------------------------------------------------
(* SpecLive: the poller with runs of the callback that follow one another   *)
(* (slot 1 only) and that is not stopped. The timer keeps firing; an await  *)
(* that could resolve infinitely often does not reject forever (strong      *)
(* fairness of the resolving steps); a statement the server can only reject *)
(* is rejected, and the ROLLBACK and the catch follow (weak fairness).      *)

NextLive ==
  \/ \E list \in BOOLEAN : NewBlock(list)
  \/ \E n \in 0..Len(SchemaTables) : StartInitializeDatabase(n)
  \/ StartPolling
  \/ StartFail
  \/ TimerFire(1)
  \/ TickFail(1)
  \/ TickHead(1)
  \/ TickDelayDone(1)
  \/ TickRead(1, Now)
  \/ TickConnect(1)
  \/ TickBegin(1)
  \/ TickUpsertMarket(1)
  \/ TickUpsertToken(1)
  \/ TickQueryFail(1)
  \/ TickStoreThrows(1)
  \/ TickCommit(1)

LiveFairness ==
  /\ WF_vars(TimerFire(1))
  /\ SF_vars(TickHead(1))
  /\ SF_vars(TickDelayDone(1))
  /\ SF_vars(TickRead(1, Now))
  /\ SF_vars(TickConnect(1))
  /\ SF_vars(TickBegin(1))
  /\ SF_vars(TickUpsertMarket(1))
  /\ SF_vars(TickUpsertToken(1))
  /\ SF_vars(TickCommit(1))
  /\ WF_vars(TickQueryFail(1))
  /\ WF_vars(TickStoreThrows(1))

SpecLive == Init /\ [][NextLive]_vars /\ LiveFairness

----------------------------------------------------------------------------
(* Claims about the poller's progress, checked under SpecLive *)

\* C35 (as claimed): whenever the poller runs with the head above the cursor,
\* a later run of the callback stores a block and the cursor goes up.
C35_Progress ==
  \A c \in 0..MaxHead :
    (pollerPc = "running" /\ lastProcessedBlock = c /\ head > c)
      ~> (lastProcessedBlock > c)

====
